---- MODULE Spec2Model ----
(***************************************************************************)
(* Model of backup-btrfs: the retention engine                             *)
(* (utils::find_backups_to_be_deleted), the common-parent resolver         *)
(* (ActionsSystem::get_common_parent, utils::get_common_parent) and the    *)
(* backup cycle of the two binaries (src/main.rs, src/bin/backup-btrfs.rs).*)
(*                                                                         *)
(* A timestamp is a chrono DateTime, kept as the record [days, secs, frac] *)
(* of its UTC instant; policy durations are whole seconds.  Paths and      *)
(* names are sequences of byte codes.  A snapshot handed to the retention  *)
(* engine is a record [path, timestamp, suffix]; its path stands for the   *)
(* identity of the `&dyn Snapshot` reference.                              *)
(***************************************************************************)
EXTENDS Integers, Sequences, FiniteSets, TLC

\* ---------------------------------------------------------------- bounds
MaxBackups == 3
MaxPolicyLen == 2
MaxDuration == 2

\* snapshot timestamps at_second(0..MaxTimestamp); with the two values of "now"
\* below the ages run from 0 to MaxDuration + 2 seconds, past every policy duration
MaxTimestamp == MaxDuration + 1

\* common-parent resolver: lengths of the two inventories, number of uuids
MaxLocal == 2
MaxRemote == 3
MaxUuid == 3

\* backup cycle: snapshots found on the local and on the remote file system
\* when the cycle starts, the newest timestamp among their names, and the
\* length of the configured policies
MaxOld == 2
MaxOldRemote == 2
MaxOldTs == 1
MaxCyclePolicyLen == 1

\* suffixes carried by the snapshots of the inventory (utils/tests.rs)
Suffixes == {"host_subvolume", "host2_subvolume"}

\* ---------------------------------------------------------------- helpers
Range(s) == {s[i] : i \in 1..Len(s)}

Front(s) == SubSeq(s, 1, Len(s) - 1)

Last(s) == s[Len(s)]

Reverse(s) == [i \in 1..Len(s) |-> s[Len(s) + 1 - i]]

SeqsUpTo(S, n) == UNION {[1..k -> S] : k \in 0..n}

\* ============================================================ variables
VARIABLES
    \* --- find_backups_to_be_deleted: arguments
    current_timestamp,  \* `current_timestamp`
    policy,             \* `policy` argument: the vector of durations
    backups,            \* `backups` argument, in the caller's order
    snapshot_suffix,    \* `snapshot_suffix`
    \* --- find_backups_to_be_deleted: locals
    backups_sorted,     \* the local clone `backups` after sort_by_key
    scan_pos,           \* number of elements of backups.iter().rev() consumed
    bucket_vec,         \* `bucket_vec`
    policy_pos,         \* position of policy_iter: the local `policy` is
                        \* Some(policy[policy_pos]) or None when past the end
    res,                \* `res`
    prune_pc,           \* "idle" | "start" | "scan" | "done"
    \* --- get_common_parent: arguments, chosen implementation and result
    subvolumes_local,   \* `subvolumes_local` / `snapshots_local`
    subvolumes_remote,  \* `subvolumes_remote` / `snapshots_remote`
    resolver,           \* "actions" (ActionsSystem::get_common_parent) |
                        \* "utils" (utils::get_common_parent) | "none"
    common_parent,      \* the returned Option: <<>> is None, <<sv>> is Some(sv)
    parent_pc,          \* "idle" | "start" | "done" | "failed": main returned an Err
    \* --- backup cycle (src/main.rs, src/bin/backup-btrfs.rs)
    program,            \* "main" (src/main.rs) | "backup_btrfs" (src/bin/backup-btrfs.rs) | "none"
    cycle_pc,           \* the call `main` executes next: "create" | "devices" | "send" |
                        \* "prune_local" | "prune_remote"; "done" | "failed" after return
    fs_local,           \* subvolumes of the local file system, in rootid order
    fs_remote,          \* subvolumes of the remote file system, in rootid order
    local_mount_information,   \* what get_mount_information reports locally
    remote_mount_information,  \* ... and on the remote host
    policy_local,       \* config.policy_local
    policy_remote,      \* config.policy_remote
    snapshots_local,    \* main.rs: `snapshots_local`
    latest_local_snapshot,     \* main.rs: `latest_local_snapshot`; backup-btrfs.rs:
                        \* `new_snapshot_info`; an Option
    filter_time,        \* main.rs: `filter_time`
    trace,              \* the external commands and the canonicalize calls executed
                        \* so far and the returns of the calls of `main`, in order
    \* --- btrfs_to_fs_path (src/actions/mod.rs)
    path_mount_information, \* `mount_information`
    path_device,        \* `device`
    path_btrfs_path,    \* `btrfs_path`
    path_result,        \* the returned Result: Some(path), None for the error
    path_pc,            \* "idle", "call", "done"
    \* --- get_subvolumes (src/commands/get_subvolumes.rs, src/btrfs/mod.rs)
    list_parser,        \* "commands": Commander::get_subvolumes, "btrfs": Btrfs
    list_input,         \* the listing the btrfs tool printed
    list_result,        \* the returned Result
    list_pc,            \* "idle", "call", "done"
    \* --- get_timestamp_suffix_from_snapshot_path (src/utils/snapshot.rs)
    name_origin,        \* Some(timestamp, suffix) the path was built from, or None
    name_path,          \* `snapshot_path`
    name_result,        \* the returned Result: Some(pair), None for the error
    name_pc,            \* "idle", "call", "done"
    \* --- delete_subvolume (src/commands/delete_subvolume.rs, src/btrfs/mod.rs)
    del_impl,           \* "commands": Commander, "btrfs": Btrfs
    del_context,        \* `context`: "local" or "remote"
    del_subvolume,      \* `subvolume`: the path to delete
    del_cwd,            \* the working directory of the process
    del_link_target,    \* the directory the symbolic link "/link" points to
    del_result,         \* the returned Result
    del_exec,           \* the commands handed to the executor
    del_pc              \* "idle", "call", "done"

pruneVars == <<current_timestamp, policy, backups, snapshot_suffix,
               backups_sorted, scan_pos, bucket_vec, policy_pos, res, prune_pc>>

parentVars == <<subvolumes_local, subvolumes_remote, resolver, common_parent, parent_pc>>

cycleVars == <<program, cycle_pc, fs_local, fs_remote, local_mount_information,
               remote_mount_information, policy_local, policy_remote, snapshots_local,
               latest_local_snapshot, filter_time, trace>>

\* the calls of the pure functions
pathVars == <<path_mount_information, path_device, path_btrfs_path, path_result, path_pc>>

listVars == <<list_parser, list_input, list_result, list_pc>>

nameVars == <<name_origin, name_path, name_result, name_pc>>

delVars == <<del_impl, del_context, del_subvolume, del_cwd, del_link_target, del_result,
             del_exec, del_pc>>

pureVars == <<pathVars, listVars, nameVars, delVars>>

vars == <<pruneVars, parentVars, cycleVars, pureVars>>

\* Option<T>: None is the empty sequence, Some(x) the one-element sequence
None == <<>>

Some(x) == <<x>>

PruneIdle ==
    /\ current_timestamp = 0
    /\ policy = <<>>
    /\ backups = <<>>
    /\ snapshot_suffix = ""
    /\ backups_sorted = <<>>
    /\ scan_pos = 0
    /\ bucket_vec = <<>>
    /\ policy_pos = 1
    /\ res = <<>>
    /\ prune_pc = "idle"

ParentIdle ==
    /\ subvolumes_local = <<>>
    /\ subvolumes_remote = <<>>
    /\ resolver = "none"
    /\ common_parent = None
    /\ parent_pc = "idle"

PathIdle ==
    /\ path_mount_information = <<>>
    /\ path_device = ""
    /\ path_btrfs_path = <<>>
    /\ path_result = <<>>
    /\ path_pc = "idle"

ListIdle ==
    /\ list_parser = "none"
    /\ list_input = <<>>
    /\ list_result = <<>>
    /\ list_pc = "idle"

NameIdle ==
    /\ name_origin = <<>>
    /\ name_path = <<>>
    /\ name_result = <<>>
    /\ name_pc = "idle"

DelIdle ==
    /\ del_impl = "none"
    /\ del_context = "none"
    /\ del_subvolume = <<>>
    /\ del_cwd = <<>>
    /\ del_link_target = <<>>
    /\ del_result = "none"
    /\ del_exec = <<>>
    /\ del_pc = "idle"

PureIdle == PathIdle /\ ListIdle /\ NameIdle /\ DelIdle

CycleIdle ==
    /\ program = "none"
    /\ cycle_pc = "idle"
    /\ fs_local = <<>>
    /\ fs_remote = <<>>
    /\ local_mount_information = <<>>
    /\ remote_mount_information = <<>>
    /\ policy_local = <<>>
    /\ policy_remote = <<>>
    /\ snapshots_local = <<>>
    /\ latest_local_snapshot = None
    /\ filter_time = 0
    /\ trace = <<>>

\* ================================================ strings, paths and time
\* A String is a sequence of bytes.  The characters the code looks for:
\* '/', '_' and '.'
Slash == 47

Underscore == 95

Dot == 46

Max(S) == CHOOSE x \in S : \A y \in S : y <= x

Min(S) == CHOOSE x \in S : \A y \in S : x <= y

\* str::rfind(char): the position of the last occurrence
rfind(s, c) ==
    LET idx == {i \in 1..Len(s) : s[i] = c}
    IN  IF idx = {} THEN None ELSE Some(Max(idx))

\* the position of the first occurrence, as str::split finds it
find(s, c) ==
    LET idx == {i \in 1..Len(s) : s[i] = c}
    IN  IF idx = {} THEN None ELSE Some(Min(idx))

\* str::strip_suffix
strip_suffix(s, suffix) ==
    IF Len(suffix) <= Len(s) /\ SubSeq(s, Len(s) - Len(suffix) + 1, Len(s)) = suffix
    THEN Some(SubSeq(s, 1, Len(s) - Len(suffix)))
    ELSE None

\* std::path (Unix).  Path::has_root: the path starts with a separator
has_root(path) == path # <<>> /\ path[1] = Slash

\* the positions where a piece between separators starts
piece_starts(path) ==
    {i \in 1..Len(path) : path[i] # Slash /\ (i = 1 \/ path[i - 1] = Slash)}

\* the position where the piece that starts at i ends
piece_end(path, i) == Min({j \in i..Len(path) : j = Len(path) \/ path[j + 1] = Slash})

piece_at(path, i) == SubSeq(path, i, piece_end(path, i))

\* Path::components: repeated separators, separators at the end and "."
\* pieces are no components, but for a "." at the start of a relative path
\* (Component::CurDir); the positions where a Normal, ParentDir or CurDir
\* component starts
component_starts(path) ==
    {i \in piece_starts(path) : piece_at(path, i) # <<Dot>> \/ i = 1}

\* the k-th element of a set of positions
nth(S, k) == CHOOSE i \in S : Cardinality({j \in S : j < i}) = k - 1

\* Path::components as a vector: Component::RootDir is "/"
components(path) ==
    (IF has_root(path) THEN <<<<Slash>>>> ELSE <<>>)
        \o [k \in 1..Cardinality(component_starts(path)) |->
               piece_at(path, nth(component_starts(path), k))]

\* Path::components().last().as_os_str(): None for the empty path, "/" for a
\* path of separators and "." pieces only
last_component_at(path, starts) ==
    IF starts = {} THEN (IF has_root(path) THEN Some(<<Slash>>) ELSE None)
    ELSE Some(piece_at(path, Max(starts)))

last_component(path) == last_component_at(path, component_starts(path))

\* Components::as_path after `skip` components were taken from the front: the
\* text from the next component to the end of the last one; with nothing
\* taken the text keeps its start, and a root is never trimmed away
remaining_path(path, starts, skip) ==
    IF skip = 0
    THEN IF starts = {} THEN (IF has_root(path) THEN <<Slash>> ELSE <<>>)
         ELSE SubSeq(path, 1, piece_end(path, Max(starts)))
    ELSE IF (IF has_root(path) THEN skip - 1 ELSE skip) >= Cardinality(starts) THEN <<>>
         ELSE SubSeq(path,
                     nth(starts, (IF has_root(path) THEN skip ELSE skip + 1)),
                     piece_end(path, Max(starts)))

\* Path::strip_prefix: the components of `base` are the first components of
\* `path`; the rest of the path as it is written.  None stands for the Err
strip_prefix_components(path, cp, cb) ==
    IF Len(cb) <= Len(cp) /\ SubSeq(cp, 1, Len(cb)) = cb
    THEN Some(remaining_path(path, component_starts(path), Len(cb)))
    ELSE None

strip_prefix(path, base) == strip_prefix_components(path, components(path), components(base))

\* Path::join, PathBuf::push: an absolute path replaces the base; otherwise a
\* separator is added unless the base is empty or ends with one
join(base, rel) ==
    IF has_root(rel) THEN rel
    ELSE IF base # <<>> /\ Last(base) # Slash THEN base \o <<Slash>> \o rel
    ELSE base \o rel


\* ------------------------------------------------------------------ time
\* chrono::DateTime: the instant as the date (days since 1970-01-01), the
\* second of the day and the nanosecond in UTC; during a leap second `secs`
\* stays at the 59th second and `frac` runs from 1000000000 to 1999999999.
\* The offset a DateTime<FixedOffset> carries takes no part in ==, < or `-`.
DateTime(days, secs, frac) == [days |-> days, secs |-> secs, frac |-> frac]

Nanos == 1000000000

SecsPerDay == 86400

\* Ord for DateTime: date, second, nanosecond
dt_lt(a, b) ==
    \/ a.days < b.days
    \/ a.days = b.days /\ a.secs < b.secs
    \/ a.days = b.days /\ a.secs = b.secs /\ a.frac < b.frac

dt_le(a, b) == a = b \/ dt_lt(a, b)

\* chrono::Duration: whole days, seconds of the day, nanoseconds; the seconds
\* and the nanoseconds are never negative
Duration(days, secs, nanos) == [days |-> days, secs |-> secs, nanos |-> nanos]

\* Duration::seconds
seconds(n) == Duration(n \div SecsPerDay, n % SecsPerDay, 0)

normalized_duration(days, secs, frac) ==
    Duration(days + ((secs + (frac \div Nanos)) \div SecsPerDay),
             (secs + (frac \div Nanos)) % SecsPerDay,
             frac % Nanos)

\* NaiveTime::signed_duration_since: a leap second between the two times is
\* counted
leap_adjust(a, b) ==
    IF a.secs > b.secs /\ b.frac >= Nanos THEN 1
    ELSE IF a.secs < b.secs /\ a.frac >= Nanos THEN 0 - 1
    ELSE 0

\* DateTime - DateTime
signed_duration_since(a, b) ==
    normalized_duration(a.days - b.days, a.secs - b.secs + leap_adjust(a, b), a.frac - b.frac)

\* Ord for Duration
duration_lt(x, y) ==
    \/ x.days < y.days
    \/ x.days = y.days /\ x.secs < y.secs
    \/ x.days = y.days /\ x.secs = y.secs /\ x.nanos < y.nanos

\* the proleptic Gregorian calendar
is_leap_year(y) == y % 4 = 0 /\ (y % 100 # 0 \/ y % 400 = 0)

days_in_month(y, m) ==
    IF m = 2 THEN (IF is_leap_year(y) THEN 29 ELSE 28)
    ELSE IF m \in {4, 6, 9, 11} THEN 30 ELSE 31

\* the day of the year of a date, counted from the first of March
day_of_march_year(m, d) == (153 * (IF m > 2 THEN m - 3 ELSE m + 9) + 2) \div 5 + d - 1

\* the days from 0000-03-01 to the first of March of the year y
days_before_march_year(y) == y * 365 + y \div 4 - y \div 100 + y \div 400

\* NaiveDate::from_ymd: days since 1970-01-01
days_from_civil(y, m, d) ==
    days_before_march_year(IF m <= 2 THEN y - 1 ELSE y) + day_of_march_year(m, d) - 719468

\* the instants of the inputs: t seconds after 2020-01-01T00:00:00Z
at_second(t) ==
    DateTime(days_from_civil(2020, 1, 1) + (t \div SecsPerDay), t % SecsPerDay, 0)

\* the year, counted from March, that holds the day z after 0000-03-01:
\* the estimate z / 365.2425 is at most one year off
march_year_near(z, y) ==
    IF days_before_march_year(y) > z THEN y - 1
    ELSE IF days_before_march_year(y + 1) <= z THEN y + 1
    ELSE y

march_year_of(z) == march_year_near(z, (z * 400) \div 146097)

\* the month, counted from March = 0, that holds the day doy of such a year
march_month_of(doy) == (5 * doy + 2) \div 153

civil_of(y, doy, mp) ==
    [year |-> IF mp < 10 THEN y ELSE y + 1,
     month |-> IF mp < 10 THEN mp + 3 ELSE mp - 9,
     day |-> doy - (153 * mp + 2) \div 5 + 1]

civil_in_year(y, doy) == civil_of(y, doy, march_month_of(doy))

civil_from_march_days(z, y) == civil_in_year(y, z - days_before_march_year(y))

\* Datelike::year, month, day of a date given in days since 1970-01-01
civil_from_days(days) == civil_from_march_days(days + 719468, march_year_of(days + 719468))

\* decimal digits
is_digit(c) == c \in 48..57

two_digits(n) == <<48 + (n \div 10), 48 + (n % 10)>>

four_digits(n) == two_digits(n \div 100) \o two_digits(n % 100)

\* scan::number(s, n, n) at position i: None unless n digits stand there
number_at(s, i, n) ==
    IF i + n - 1 <= Len(s) /\ \A k \in i..(i + n - 1) : is_digit(s[k])
    THEN Some(IF n = 2 THEN (s[i] - 48) * 10 + (s[i + 1] - 48)
              ELSE (s[i] - 48) * 1000 + (s[i + 1] - 48) * 100
                       + (s[i + 2] - 48) * 10 + (s[i + 3] - 48))
    ELSE None

char_at(s, i, cs) == i <= Len(s) /\ s[i] \in cs

\* DateTime<Utc>::to_rfc3339_opts(SecondsFormat::Secs, true), for the years
\* 0 to 9999: "YYYY-MM-DDTHH:MM:SSZ"; the nanoseconds are not written, a leap
\* second is written as second 60
write_rfc3339(date, secs, leap) ==
    four_digits(date.year) \o <<45>> \o two_digits(date.month) \o <<45>>
        \o two_digits(date.day) \o <<84>> \o two_digits(secs \div 3600) \o <<58>>
        \o two_digits((secs \div 60) % 60) \o <<58>>
        \o two_digits((secs % 60) + (IF leap THEN 1 ELSE 0)) \o <<90>>

to_rfc3339_opts(timestamp) ==
    write_rfc3339(civil_from_days(timestamp.days), timestamp.secs, timestamp.frac >= Nanos)

\* scan::nanosecond: the digits after the '.', the first nine of them count
digits_end(s, i) == Max({i - 1} \cup {j \in i..Len(s) : \A k \in i..j : is_digit(s[k])})

RECURSIVE nanosecond(_, _, _, _)
nanosecond(s, i, e, scale) ==
    IF i > e \/ scale = 0 THEN 0
    ELSE (s[i] - 48) * scale + nanosecond(s, i + 1, e, scale \div 10)

\* where the offset starts: after the seconds, or after the fraction if a '.'
\* follows the seconds; 0 when no digit follows the '.'
offset_start(s) ==
    IF char_at(s, 20, {46})
    THEN (IF digits_end(s, 21) >= 21 THEN digits_end(s, 21) + 1 ELSE 0)
    ELSE 20

\* scan::timezone_offset with the colon required: "Z", "z", or a sign ('+',
\* '-' or U+2212), two digits of hours, ':', two digits of minutes below 60,
\* and nothing after it; the offset in seconds, None for the Err
signed_offset(s, q, sign) ==
    IF /\ Len(s) = q + 4
       /\ number_at(s, q, 2) # None
       /\ s[q + 2] = 58
       /\ number_at(s, q + 3, 2) # None
       /\ number_at(s, q + 3, 2)[1] <= 59
       /\ number_at(s, q, 2)[1] <= 23
    THEN Some(sign * (number_at(s, q, 2)[1] * 3600 + number_at(s, q + 3, 2)[1] * 60))
    ELSE None

timezone_offset(s, p) ==
    IF p = 0 \/ p > Len(s) THEN None
    ELSE IF s[p] \in {90, 122} THEN (IF Len(s) = p THEN Some(0) ELSE None)
    ELSE IF s[p] = 43 THEN signed_offset(s, p + 1, 1)
    ELSE IF s[p] = 45 THEN signed_offset(s, p + 1, 0 - 1)
    ELSE IF p + 2 <= Len(s) /\ SubSeq(s, p, p + 2) = <<226, 136, 146>>
         THEN signed_offset(s, p + 3, 0 - 1)
    ELSE None

\* format::parse_rfc3339: the fields of full-date ("T" | "t" | " ") full-time
rfc3339_fields(s) ==
    IF /\ number_at(s, 1, 4) # None
       /\ char_at(s, 5, {45})
       /\ number_at(s, 6, 2) # None
       /\ char_at(s, 8, {45})
       /\ number_at(s, 9, 2) # None
       /\ char_at(s, 11, {84, 116, 32})
       /\ number_at(s, 12, 2) # None
       /\ char_at(s, 14, {58})
       /\ number_at(s, 15, 2) # None
       /\ char_at(s, 17, {58})
       /\ number_at(s, 18, 2) # None
       /\ timezone_offset(s, offset_start(s)) # None
    THEN Some([year |-> number_at(s, 1, 4)[1], month |-> number_at(s, 6, 2)[1],
               day |-> number_at(s, 9, 2)[1], hour |-> number_at(s, 12, 2)[1],
               minute |-> number_at(s, 15, 2)[1], second |-> number_at(s, 18, 2)[1],
               nanosecond |-> IF char_at(s, 20, {46})
                              THEN nanosecond(s, 21, digits_end(s, 21), Nanos \div 10)
                              ELSE 0,
               offset |-> timezone_offset(s, offset_start(s))[1]])
    ELSE None

\* the instant of a local date and time with an offset: the offset is
\* subtracted from the seconds, the nanoseconds stay
utc_instant(days, secs, frac) ==
    DateTime(days + (secs \div SecsPerDay), secs % SecsPerDay, frac)

\* Parsed::to_datetime: the date must exist, hour < 24, minute < 60, second
\* <= 60, where second 60 is a leap second
to_datetime(f) ==
    IF /\ f.month \in 1..12
       /\ f.day \in 1..days_in_month(f.year, f.month)
       /\ f.hour <= 23
       /\ f.minute <= 59
       /\ f.second <= 60
    THEN Some(utc_instant(days_from_civil(f.year, f.month, f.day),
                          f.hour * 3600 + f.minute * 60
                              + (IF f.second = 60 THEN 59 ELSE f.second) - f.offset,
                          f.nanosecond + (IF f.second = 60 THEN Nanos ELSE 0)))
    ELSE None

parsed_to_datetime(fields) == IF fields = None THEN None ELSE to_datetime(fields[1])

\* DateTime::parse_from_rfc3339; None stands for the Err
parse_from_rfc3339(s) == parsed_to_datetime(rfc3339_fields(s))


\* ------------------------------------------------------- snapshot names
\* commands/snapshot_subvolume.rs:39-46, btrfs/mod.rs:131-136  the path of a
\* new snapshot: PathBuf::from(snapshot_path), then push of
\* format!("{}_{}", <timestamp>, <suffix>)
snapshot_path_of(dir, timestamp, suffix) ==
    join(dir, to_rfc3339_opts(timestamp) \o <<Underscore>> \o suffix)

\* utils/snapshot.rs:108  the first piece of split("_") and the other pieces
\* joined by "_" again (utils/snapshot.rs:117): the texts before and after the
\* first '_' at `us`, the whole name and the empty text when there is none
split_first(snapshot_name, us) ==
    IF us = None THEN <<snapshot_name, <<>>>>
    ELSE <<SubSeq(snapshot_name, 1, us[1] - 1),
           SubSeq(snapshot_name, us[1] + 1, Len(snapshot_name))>>

snapshot_tokens(snapshot_name) == split_first(snapshot_name, find(snapshot_name, Underscore))

\* utils/snapshot.rs:115-118  the returned pair; None stands for the Err of `?`
timestamp_and_suffix(snapshot_timestamp, rest) ==
    IF snapshot_timestamp = None THEN None
    ELSE Some([timestamp |-> snapshot_timestamp[1], suffix |-> rest])

parse_snapshot_tokens(tokens) ==
    timestamp_and_suffix(parse_from_rfc3339(tokens[1]), tokens[2])

\* mutant: the name is cut at its last '_'
split_at_last(snapshot_name) ==
    IF snapshot_name = None THEN None
    ELSE parse_snapshot_tokens(split_first(snapshot_name[1],
                                           rfind(snapshot_name[1], Underscore)))

get_timestamp_suffix_split_at_last(snapshot_path) ==
    split_at_last(last_component(snapshot_path))

\* utils/snapshot.rs:99-106  .last().ok_or(..)?: a path without components
\* is an Err
decode_snapshot_name(snapshot_name) ==
    IF snapshot_name = None THEN None
    ELSE parse_snapshot_tokens(snapshot_tokens(snapshot_name[1]))

\* utils/snapshot.rs:96-119  the text before the first '_' of the last path
\* component is the timestamp, whatever follows that '_' is the suffix;
\* None stands for the Err
get_timestamp_suffix_from_snapshot_path(snapshot_path) ==
    decode_snapshot_name(last_component(snapshot_path))

\* utils/snapshot.rs:40-52  the fields of a SnapshotLocal: the name is decoded
\* first, then the parent uuid must be there
snapshot_local(value, ts) ==
    IF ts = None \/ value.parent_uuid = None THEN None
    ELSE Some([path |-> value.btrfs_path, timestamp |-> ts[1].timestamp,
               uuid |-> value.uuid, parent_uuid |-> value.parent_uuid[1],
               suffix |-> ts[1].suffix])

\* utils/snapshot.rs:37-53  TryFrom<&Subvolume> for SnapshotLocal
try_from_local(value) ==
    snapshot_local(value, get_timestamp_suffix_from_snapshot_path(value.btrfs_path))

\* utils/snapshot.rs:81-93  the fields of a SnapshotRemote
snapshot_remote(value, ts) ==
    IF ts = None \/ value.received_uuid = None THEN None
    ELSE Some([path |-> value.btrfs_path, timestamp |-> ts[1].timestamp,
               uuid |-> value.uuid, received_uuid |-> value.received_uuid[1],
               suffix |-> ts[1].suffix])

\* utils/snapshot.rs:78-94  TryFrom<&Subvolume> for SnapshotRemote
try_from_remote(value) ==
    snapshot_remote(value, get_timestamp_suffix_from_snapshot_path(value.btrfs_path))

\* Iterator::collect into a Result: the first Err, else the vector
collect(results) ==
    IF \E i \in 1..Len(results) : results[i] = None THEN None
    ELSE Some([i \in 1..Len(results) |-> results[i][1]])

\* utils/mod.rs:83-90
get_subvolume_by_path(path, subvolumes) ==
    LET found == SelectSeq(subvolumes, LAMBDA e : e.btrfs_path = path)
    IN  IF found = <<>> THEN None ELSE Some(Head(found))

\* utils/mod.rs:103-109  the children of the subvolume
children_by_parent_uuid(subvolume, subvolumes) ==
    SelectSeq(subvolumes, LAMBDA e : e.parent_uuid # None /\ e.parent_uuid[1] = subvolume.uuid)

\* utils/mod.rs:112-113, 123-124  .map(|e| e.try_into()).collect()
local_snapshots_of(children) ==
    collect([i \in 1..Len(children) |-> try_from_local(children[i])])

remote_snapshots_of(received) ==
    collect([i \in 1..Len(received) |-> try_from_remote(received[i])])

\* utils/mod.rs:99-110  the children of the subvolume, converted; None stands
\* for the Err of a child that is not named as a snapshot
get_local_snapshots(subvolume, subvolumes) ==
    local_snapshots_of(children_by_parent_uuid(subvolume, subvolumes))

\* utils/mod.rs:116-126  the subvolumes with a received uuid, converted; None
\* stands for the Err of one that is not named as a snapshot
get_remote_snapshots(subvolumes) ==
    remote_snapshots_of(SelectSeq(subvolumes, LAMBDA e : e.received_uuid # None))

\* main.rs:48-52  the subvolume to back up and its snapshots; None stands for
\* the Err of either call
local_inventory(subvolume_backup, subvolumes) ==
    IF subvolume_backup = None THEN None
    ELSE get_local_snapshots(subvolume_backup[1], subvolumes)

\* ---------------------------------------------------------- configuration
\* config.source_subvolume_path "/r", config.snapshot_path "/s",
\* config.backup_path "/b" and config.snapshot_suffix "h", as character codes
source_subvolume_path == <<Slash, 114>>

snapshot_path == <<Slash, 115>>

backup_path == <<Slash, 98>>

cycle_suffix == <<104>>

snapshot_device == "snapshot_device"

backup_device == "backup_device"

Subvolume(path, uuid, parent_uuid, received_uuid) ==
    [btrfs_path |-> path, uuid |-> uuid, parent_uuid |-> parent_uuid,
     received_uuid |-> received_uuid]

\* the subvolume to back up
source_subvolume == Subvolume(source_subvolume_path, 0, None, None)

\* ===================================================== retention engine
\* mutant: the vector is scanned in the order of the argument
sort_by_key_unsorted(s) == s

\* utils/mod.rs:37  backups.sort_by_key(|&e| e.timestamp())  (stable)
InsertByTimestamp(sorted, x) ==
    LET n == Cardinality({i \in 1..Len(sorted) : dt_le(sorted[i].timestamp, x.timestamp)})
    IN  SubSeq(sorted, 1, n) \o <<x>> \o SubSeq(sorted, n + 1, Len(sorted))

RECURSIVE sort_by_key(_)
sort_by_key(s) ==
    IF s = <<>> THEN <<>>
    ELSE InsertByTimestamp(sort_by_key(Front(s)), Last(s))

\* mutant: the suffix filter is dropped
suffix_matches_any(backup, suffix) == TRUE

\* utils/mod.rs:40  backup.suffix() != snapshot_suffix => continue
suffix_matches(backup, suffix) == backup.suffix = suffix

\* mutant: the comparison with the policy duration is not strict
older_than_or_equal(now, backup, pol) ==
    ~duration_lt(signed_duration_since(now, backup.timestamp), seconds(pol))

\* utils/mod.rs:52  *current_timestamp - *backup.timestamp() > pol, a policy
\* duration being `pol` whole seconds
older_than(now, backup, pol) ==
    duration_lt(seconds(pol), signed_duration_since(now, backup.timestamp))

\* mutant: the bucket is closed without popping the member to keep
close_bucket_no_pop(st, backup) ==
    IF Len(st.bucket_vec) > 0
    THEN [st EXCEPT !.res = st.res \o st.bucket_vec,
                    !.bucket_vec = <<backup>>]
    ELSE st

\* mutant: the backup opens the next bucket also when the closed one was empty
close_bucket_always_open(st, backup) ==
    [st EXCEPT !.res = st.res \o Front(st.bucket_vec),
               !.bucket_vec = <<backup>>]

\* mutant: the members are copied to res and stay in the bucket
close_bucket_copying(st, backup) ==
    IF Len(st.bucket_vec) > 0
    THEN [st EXCEPT !.res = st.res \o Front(st.bucket_vec),
                    !.bucket_vec = <<backup>> \o Front(st.bucket_vec)]
    ELSE st

\* utils/mod.rs:53-57  closing the bucket: pop, append the rest to res,
\* the backup opens the next bucket -- only when the bucket is non-empty
close_bucket(st, backup) ==
    IF Len(st.bucket_vec) > 0
    THEN [st EXCEPT !.res = st.res \o Front(st.bucket_vec),
                    !.bucket_vec = <<backup>>]
    ELSE st

\* mutant: the cursor advances only when a bucket has been opened
advance_policy_if_open(st) ==
    IF Len(st.bucket_vec) > 0 THEN [st EXCEPT !.policy_pos = st.policy_pos + 1] ELSE st

\* utils/mod.rs:59  policy = policy_iter.next()
advance_policy(st) == [st EXCEPT !.policy_pos = st.policy_pos + 1]

\* utils/mod.rs:61,65  bucket_vec.push(backup)
push_bucket(st, backup) == [st EXCEPT !.bucket_vec = Append(st.bucket_vec, backup)]

\* utils/mod.rs:39-68  one iteration of the loop over backups.iter().rev()
loop_body(st, backup, now, pol_vec, suffix) ==
    IF ~suffix_matches(backup, suffix) THEN st
    ELSE IF st.policy_pos <= Len(pol_vec)
         THEN IF older_than(now, backup, pol_vec[st.policy_pos])
              THEN advance_policy(close_bucket(st, backup))
              ELSE push_bucket(st, backup)
         ELSE push_bucket(st, backup)

\* mutant: bucket_vec.remove(0) is left out, the whole final bucket is deleted
final_bucket_delete_all(st) ==
    [st EXCEPT !.res = st.res \o st.bucket_vec, !.bucket_vec = <<>>]

\* utils/mod.rs:70-73  the bucket left after the loop
final_bucket(st) ==
    IF Len(st.bucket_vec) > 0
    THEN [st EXCEPT !.res = st.res \o Tail(st.bucket_vec), !.bucket_vec = <<>>]
    ELSE st

\* utils/mod.rs:31-34  locals before the loop
initial_locals == [bucket_vec |-> <<>>, policy_pos |-> 1, res |-> <<>>]

RECURSIVE scan(_, _, _, _, _)
scan(st, rev, now, pol_vec, suffix) ==
    IF rev = <<>> THEN st
    ELSE scan(loop_body(st, Head(rev), now, pol_vec, suffix), Tail(rev), now, pol_vec, suffix)

\* utils/mod.rs:25-76  the whole function: the returned vector `res`
find_backups_to_be_deleted(now, pol_vec, bks, suffix) ==
    final_bucket(scan(initial_locals, Reverse(sort_by_key(bks)), now, pol_vec, suffix)).res

\* ------------------------------------------------- inputs of the engine
\* snapshots taken 0..MaxTimestamp seconds after 2020-01-01T00:00:00Z
Snapshots == [timestamp : {at_second(t) : t \in 0..MaxTimestamp}, suffix : Suffixes]

\* the i-th element of the argument vector is the reference i
BackupVectors ==
    {[i \in 1..Len(s) |-> [path |-> i, timestamp |-> s[i].timestamp, suffix |-> s[i].suffix]] :
        s \in SeqsUpTo(Snapshots, MaxBackups)}

Policies == SeqsUpTo(1..MaxDuration, MaxPolicyLen)

PruneInit ==
    /\ current_timestamp \in {at_second(MaxTimestamp), at_second(MaxTimestamp + 1)}
    /\ policy \in Policies
    /\ backups \in BackupVectors
    /\ snapshot_suffix = "host_subvolume"
    /\ backups_sorted = <<>>
    /\ scan_pos = 0
    /\ bucket_vec = <<>>
    /\ policy_pos = 1
    /\ res = <<>>
    /\ prune_pc = "start"
    /\ ParentIdle
    /\ CycleIdle
    /\ PureIdle

locals == [bucket_vec |-> bucket_vec, policy_pos |-> policy_pos, res |-> res]

\* utils/mod.rs:31-37
PruneSort ==
    /\ prune_pc = "start"
    /\ backups_sorted' = sort_by_key(backups)
    /\ prune_pc' = "scan"
    /\ UNCHANGED <<current_timestamp, policy, backups, snapshot_suffix,
                   scan_pos, bucket_vec, policy_pos, res>>
    /\ UNCHANGED <<parentVars, cycleVars, pureVars>>

\* the element the reversed iterator yields next
current_backup == backups_sorted[Len(backups_sorted) - scan_pos]

\* utils/mod.rs:39-68
PruneLoop ==
    /\ prune_pc = "scan"
    /\ scan_pos < Len(backups_sorted)
    /\ LET st == loop_body(locals, current_backup, current_timestamp, policy, snapshot_suffix)
       IN  /\ bucket_vec' = st.bucket_vec
           /\ policy_pos' = st.policy_pos
           /\ res' = st.res
    /\ scan_pos' = scan_pos + 1
    /\ UNCHANGED <<current_timestamp, policy, backups, snapshot_suffix,
                   backups_sorted, prune_pc>>
    /\ UNCHANGED <<parentVars, cycleVars, pureVars>>

\* utils/mod.rs:70-75
PruneFinish ==
    /\ prune_pc = "scan"
    /\ scan_pos = Len(backups_sorted)
    /\ LET st == final_bucket(locals)
       IN  /\ bucket_vec' = st.bucket_vec
           /\ res' = st.res
    /\ prune_pc' = "done"
    /\ UNCHANGED <<current_timestamp, policy, backups, snapshot_suffix,
                   backups_sorted, scan_pos, policy_pos>>
    /\ UNCHANGED <<parentVars, cycleVars, pureVars>>

PruneNext == PruneSort \/ PruneLoop \/ PruneFinish

SpecPrune == PruneInit /\ [][PruneNext]_vars

\* ================================================= claims: retention engine
Targets == {b \in Range(backups) : b.suffix = snapshot_suffix}

\* Duration::num_seconds of a duration of whole seconds
num_seconds(d) == d.days * SecsPerDay + d.secs

Age(b) == num_seconds(signed_duration_since(current_timestamp, b.timestamp))

\* the snapshots of the target suffix that the finished pass does not delete
Retained == Targets \ Range(res)

\* the loop is about to consume a target-suffix snapshot
AtTarget ==
    /\ prune_pc = "scan"
    /\ scan_pos < Len(backups_sorted)
    /\ current_backup.suffix = snapshot_suffix

\* ... while a policy duration is current and the snapshot is older than it
AtExpired ==
    /\ AtTarget
    /\ policy_pos <= Len(policy)
    /\ Age(current_backup) > policy[policy_pos]

\* C3: with an empty policy and at least one target-suffix snapshot the result
\* is exactly all target-suffix snapshots but one, and the one left out has the
\* greatest timestamp -- for every order of the input vector.
C3_EmptyPolicyKeepsNewest ==
    (prune_pc = "done" /\ policy = <<>> /\ Targets # {}) =>
        \E newest \in Targets :
            /\ \A b \in Targets : dt_le(b.timestamp, newest.timestamp)
            /\ Range(res) = Targets \ {newest}
            /\ Len(res) = Cardinality(Targets) - 1

C3_Witness ==
    /\ prune_pc = "done"
    /\ policy = <<>>
    /\ Cardinality(Targets) = 3
    /\ dt_lt(backups[2].timestamp, backups[1].timestamp)
    /\ dt_lt(backups[2].timestamp, backups[3].timestamp)
    /\ Len(res) = 2

\* C4: a snapshot of another suffix is never in a bucket nor in the deletion
\* result, consuming one changes neither the bucket, the cursor nor the result,
\* and the result equals the result for the input without those snapshots.
C4_OtherSuffixInert ==
    /\ \A b \in Range(res) \cup Range(bucket_vec) : b.suffix = snapshot_suffix
    /\ (prune_pc = "scan" /\ scan_pos < Len(backups_sorted) /\ ~AtTarget) =>
           loop_body(locals, current_backup, current_timestamp, policy, snapshot_suffix) = locals
    /\ prune_pc = "done" =>
           res = find_backups_to_be_deleted(current_timestamp, policy,
                     SelectSeq(backups, LAMBDA b : b.suffix = snapshot_suffix), snapshot_suffix)

C4_Witness ==
    /\ prune_pc = "done"
    /\ Len(backups) = 3
    /\ backups[2].suffix # snapshot_suffix
    /\ backups[1].suffix = snapshot_suffix
    /\ backups[3].suffix = snapshot_suffix
    /\ dt_lt(backups[1].timestamp, backups[2].timestamp)
    /\ dt_lt(backups[2].timestamp, backups[3].timestamp)
    /\ Len(policy) = 1
    /\ Age(backups[2]) > policy[1]
    /\ Age(backups[3]) <= policy[1]
    /\ Len(res) = 0

\* C5: when the scan reaches a target-suffix snapshot older than the current
\* duration and the bucket is non-empty, the step appends every member of the
\* bucket but the last-added one to the result, the last-added member is
\* retained (it is in no bucket, and absent from the final result), and the
\* cursor advances by exactly one.
C5_CloseKeepsLastAdded ==
    [][(AtExpired /\ bucket_vec # <<>>) =>
          /\ res' = res \o SubSeq(bucket_vec, 1, Len(bucket_vec) - 1)
          /\ bucket_vec[Len(bucket_vec)] \notin Range(res') \cup Range(bucket_vec')
          /\ bucket_vec[Len(bucket_vec)] \notin
                 Range(find_backups_to_be_deleted(current_timestamp, policy, backups, snapshot_suffix))
          /\ \A b \in Range(bucket_vec) : dt_le(bucket_vec[Len(bucket_vec)].timestamp, b.timestamp)
          /\ policy_pos' = policy_pos + 1]_vars

\* a bucket of two was closed: its first member is deleted, the snapshot that
\* closed it sits alone in the new bucket
C5_Witness ==
    /\ prune_pc = "scan"
    /\ policy_pos = 2
    /\ Len(res) = 1
    /\ Len(bucket_vec) = 1
    /\ Age(bucket_vec[1]) > policy[1]
    /\ Age(res[1]) <= policy[1]
    /\ Cardinality(Targets) = 3

\* C6 as claimed: the final bucket keeps its first-added member when the cursor
\* is exhausted and its last-added member when a duration is still current.
\* utils/mod.rs:70-73 removes the first-added member in both cases, so under a
\* duration that is still current the oldest member is deleted with the rest.
C6_Claimed ==
    [][(prune_pc = "scan" /\ scan_pos = Len(backups_sorted) /\ bucket_vec # <<>>) =>
          res' = res \o (IF policy_pos > Len(policy)
                         THEN Tail(bucket_vec)
                         ELSE SubSeq(bucket_vec, 1, Len(bucket_vec) - 1))]_vars

\* what the code does: after the scan a non-empty final bucket retains only
\* its first-added (newest) member, whether the cursor is exhausted or a
\* duration is still current; all its other members are added to the result.
FinalKeepsFirstAdded ==
    [][(prune_pc = "scan" /\ scan_pos = Len(backups_sorted) /\ bucket_vec # <<>>) =>
          /\ res' = res \o Tail(bucket_vec)
          /\ bucket_vec[1] \notin Range(res')
          /\ \A b \in Range(bucket_vec) : dt_le(b.timestamp, bucket_vec[1].timestamp)
          /\ prune_pc' = "done"]_vars

\* finished with a duration still current and a final bucket of two: the
\* oldest member is the one deleted
FinalBucketLostItsOldest ==
    /\ prune_pc = "done"
    /\ policy_pos <= Len(policy)
    /\ Cardinality(Targets) = 2
    /\ Len(res) = 1
    /\ \A b \in Targets : dt_le(res[1].timestamp, b.timestamp)

\* C7 as claimed: every target-suffix snapshot older than the current duration
\* becomes the sole member of the new bucket and advances the cursor, also when
\* the bucket being closed was empty.
C7_Claimed ==
    [][AtExpired =>
          /\ bucket_vec' = <<current_backup>>
          /\ policy_pos' = policy_pos + 1]_vars

\* C7 (amended): a target-suffix snapshot older than the current duration
\* always advances the cursor; it becomes the sole member of the new bucket
\* only when the bucket being closed was non-empty.  When that bucket was empty
\* the snapshot is put in no bucket: bucket and result stay as they are.
C7_ExpiredOpensBucketIfNonEmpty ==
    [][AtExpired =>
          /\ policy_pos' = policy_pos + 1
          /\ bucket_vec # <<>> => bucket_vec' = <<current_backup>>
          /\ bucket_vec = <<>> => (bucket_vec' = <<>> /\ res' = res)]_vars

\* the cursor has advanced over an empty bucket: nothing bucketed, nothing deleted
C7_Witness ==
    /\ prune_pc = "scan"
    /\ scan_pos = 1
    /\ policy_pos = 2
    /\ bucket_vec = <<>>
    /\ backups_sorted[Len(backups_sorted)].suffix = snapshot_suffix
    /\ Len(backups_sorted) = 3

\* C8: a target-suffix snapshot that is older than the current duration and
\* meets an empty bucket is retained: it is absent from the final result.
C8_EmptyWindowUsesNext ==
    (AtExpired /\ bucket_vec = <<>>) =>
        current_backup \notin
            Range(find_backups_to_be_deleted(current_timestamp, policy, backups, snapshot_suffix))

\* older snapshots follow the one that met the empty bucket, and one of them is deleted
C8_Witness ==
    /\ AtExpired
    /\ bucket_vec = <<>>
    /\ scan_pos = 0
    /\ Cardinality(Targets) = 3
    /\ Len(find_backups_to_be_deleted(current_timestamp, policy, backups, snapshot_suffix)) = 1

\* the retention windows of a policy d1 < ... < dn:
\* window k is (d(k-1), dk], window n+1 is (dn, infinity)
StrictlyAscending(p) == \A i \in 1..(Len(p) - 1) : p[i] < p[i + 1]

InWindow(age, k) ==
    /\ age > (IF k = 1 THEN 0 ELSE policy[k - 1])
    /\ k <= Len(policy) => age <= policy[k]

WindowMembers(S, k) == {b \in S : InWindow(Age(b), k)}

\* C9 as claimed: no window holds two retained target-suffix snapshots.
C9_Claimed ==
    (prune_pc = "done" /\ StrictlyAscending(policy)) =>
        \A k \in 1..(Len(policy) + 1) : Cardinality(WindowMembers(Retained, k)) <= 1

\* C9 (amended): for a strictly ascending policy, a window holds at most one
\* retained target-suffix snapshot provided every newer window holds at least
\* one target-suffix snapshot (so always for the first window); a snapshot
\* retained for an empty newer window may share a window with another one.
C9_OnePerWindowWhenNewerWindowsFilled ==
    (prune_pc = "done" /\ StrictlyAscending(policy)) =>
        \A k \in 1..(Len(policy) + 1) :
            (\A j \in 1..(k - 1) : WindowMembers(Targets, j) # {}) =>
                Cardinality(WindowMembers(Retained, k)) <= 1

\* two windows filled, the older one with two snapshots of which one is deleted
C9_Witness ==
    /\ prune_pc = "done"
    /\ Len(policy) = 1
    /\ Cardinality(WindowMembers(Targets, 1)) = 1
    /\ Cardinality(WindowMembers(Targets, 2)) = 2
    /\ Cardinality(WindowMembers(Retained, 2)) = 1
    /\ Cardinality(Retained) = 2

\* C26: the deletion result holds only snapshots of the input that carry the
\* target suffix, and holds none of them twice -- at every point of the pass.
C26_ResultWithinTargetsOnce ==
    /\ Range(res) \subseteq Targets
    /\ \A i, j \in 1..Len(res) : res[i] = res[j] => i = j

\* a finished pass with a policy that deleted a snapshot older than a snapshot
\* of the other suffix
C26_Witness ==
    /\ prune_pc = "done"
    /\ Len(res) = 1
    /\ policy # <<>>
    /\ \E b \in Range(backups) : b.suffix # snapshot_suffix /\ dt_lt(res[1].timestamp, b.timestamp)

\* C27: a finished pass over an input with at least one snapshot of the target
\* suffix leaves at least one of them out of the deletion result.
C27_NeverDeletesAll ==
    (prune_pc = "done" /\ Targets # {}) => Retained # {}

\* three snapshots of the target suffix, two of them deleted
C27_Witness ==
    /\ prune_pc = "done"
    /\ Cardinality(Targets) = 3
    /\ Cardinality(Retained) = 1
    /\ policy # <<>>

\* C28: a finished pass leaves at most len(policy) + 1 snapshots of the target
\* suffix out of the deletion result.
C28_RetainedAtMostPolicyPlusOne ==
    prune_pc = "done" => Cardinality(Retained) <= Len(policy) + 1

\* the limit is reached while a snapshot is deleted
C28_Witness ==
    /\ prune_pc = "done"
    /\ Len(policy) = 1
    /\ Cardinality(Targets) = 3
    /\ Cardinality(Retained) = 2

\* the orders the same snapshots can be handed over in
InputOrders ==
    {[i \in 1..Len(backups) |-> backups[f[i]]] :
        f \in {g \in [1..Len(backups) -> 1..Len(backups)] :
                  \A i, j \in 1..Len(backups) : g[i] = g[j] => i = j}}

DistinctTimestamps ==
    \A i, j \in 1..Len(backups) : backups[i].timestamp = backups[j].timestamp => i = j

\* C29: for snapshots with pairwise distinct timestamps every order of the
\* input yields the same set of snapshots to delete.
C29_OrderOfInputIrrelevant ==
    (prune_pc = "done" /\ DistinctTimestamps) =>
        \A bks \in InputOrders :
            Range(find_backups_to_be_deleted(current_timestamp, policy, bks,
                                             snapshot_suffix)) = Range(res)

\* three snapshots handed over neither oldest first nor newest first, one of
\* them deleted
C29_Witness ==
    /\ prune_pc = "done"
    /\ DistinctTimestamps
    /\ Len(backups) = 3
    /\ dt_lt(backups[2].timestamp, backups[1].timestamp)
    /\ dt_lt(backups[2].timestamp, backups[3].timestamp)
    /\ policy # <<>>
    /\ res # <<>>

\* the snapshots of the input the finished pass does not delete, in the order
\* of the input
Survivors == SelectSeq(backups, LAMBDA b : b \notin Range(res))

\* C30: a second pass with the same now, policy and suffix over the snapshots
\* the first pass did not delete returns an empty deletion result.
C30_SecondPassDeletesNothing ==
    prune_pc = "done" =>
        find_backups_to_be_deleted(current_timestamp, policy, Survivors,
                                   snapshot_suffix) = <<>>

\* a first pass that closed a bucket, deleted a snapshot and kept two
C30_Witness ==
    /\ prune_pc = "done"
    /\ policy_pos > 1
    /\ res # <<>>
    /\ Cardinality(Retained) = 2

\* =================================================== common-parent resolver
\* A String is a sequence of character codes; Rust compares Strings
\* lexicographically by bytes, a proper prefix being smaller.
str_lt(a, b) ==
    \E k \in 1..(Len(a) + 1) :
        /\ \A i \in 1..(k - 1) : i <= Len(b) /\ a[i] = b[i]
        /\ k <= Len(b)
        /\ (k > Len(a) \/ a[k] < b[k])

str_le(a, b) == a = b \/ str_lt(a, b)

\* actions/mod.rs:102-103  the HashMap collected from the local list:
\* a later entry with the same uuid replaces an earlier one
uuids_get(subvols_local, uuid) ==
    LET idx == {i \in 1..Len(subvols_local) : subvols_local[i].uuid = uuid}
    IN  IF idx = {} THEN None
        ELSE Some(subvols_local[CHOOSE i \in idx : \A j \in idx : j <= i])

\* mutant: a remote subvolume passes when it carries any received uuid
is_common_any_received(subvols_local, sv) == sv.received_uuid # None

\* actions/mod.rs:107-113  the filter on the remote subvolumes
is_common(subvols_local, sv) ==
    /\ sv.received_uuid # None
    /\ uuids_get(subvols_local, sv.received_uuid[1]) # None

\* actions/mod.rs:116  common_subvolumes.sort_by_key(|&sv| &sv.btrfs_path)  (stable)
InsertByPath(sorted, x) ==
    LET n == Cardinality({i \in 1..Len(sorted) : str_le(sorted[i].btrfs_path, x.btrfs_path)})
    IN  SubSeq(sorted, 1, n) \o <<x>> \o SubSeq(sorted, n + 1, Len(sorted))

RECURSIVE sort_by_path(_)
sort_by_path(s) ==
    IF s = <<>> THEN <<>>
    ELSE InsertByPath(sort_by_path(Front(s)), Last(s))

\* actions/mod.rs:98-123  ActionsSystem::get_common_parent
get_common_parent(subvols_local, subvols_remote) ==
    LET common_subvolumes ==
            sort_by_path(SelectSeq(subvols_remote, LAMBDA sv : is_common(subvols_local, sv)))
    IN  IF common_subvolumes = <<>> THEN None
        ELSE IF Last(common_subvolumes).received_uuid = None THEN None
        ELSE uuids_get(subvols_local, Last(common_subvolumes).received_uuid[1])

\* utils/mod.rs:141-148  the loop of utils::get_common_parent: every remote
\* snapshot whose received uuid is known locally overwrites the result
RECURSIVE utils_scan_remote(_, _, _)
utils_scan_remote(result, snaps_local, snaps_remote) ==
    IF snaps_remote = <<>> THEN result
    ELSE LET e == uuids_get(snaps_local, Head(snaps_remote).received_uuid)
         IN  utils_scan_remote(IF e # None THEN e ELSE result, snaps_local, Tail(snaps_remote))

\* utils/mod.rs:133-151  utils::get_common_parent (the resolver of src/main.rs)
utils_get_common_parent(snaps_local, snaps_remote) ==
    utils_scan_remote(None, snaps_local, snaps_remote)

\* ------------------------------------------------ inputs of the resolver
\* btrfs paths of the remote inventory: in the backup path, three snapshot
\* names and "j", which is no snapshot name
RemotePaths ==
    {snapshot_path_of(backup_path, at_second(t), cycle_suffix) : t \in 0..2}
        \cup {join(backup_path, <<106>>)}

Uuids == 1..MaxUuid

\* local snapshots: distinct uuids, children of the source subvolume, the
\* snapshot with uuid u taken at second u
LocalInventories ==
    {[i \in 1..Len(u) |->
         Subvolume(snapshot_path_of(snapshot_path, at_second(u[i]), cycle_suffix), u[i],
                   Some(source_subvolume.uuid), None)] :
        u \in {x \in SeqsUpTo(Uuids, MaxLocal) :
                  \A i, j \in 1..Len(x) : i # j => x[i] # x[j]}}

\* one listing of the remote file system: distinct paths, distinct uuids,
\* each subvolume with or without a received uuid
RemoteInventories ==
    {[i \in 1..Len(ps) |-> Subvolume(ps[i], MaxUuid + i, None, rs[i])] :
        <<ps, rs>> \in
            {pr \in SeqsUpTo(RemotePaths, MaxRemote) \X SeqsUpTo({None} \cup {Some(u) : u \in Uuids}, MaxRemote) :
                /\ Len(pr[1]) = Len(pr[2])
                /\ \A i, j \in 1..Len(pr[1]) : i # j => pr[1][i] # pr[1][j]}}

\* main.rs:47  a listing of the local file system: the snapshots, alone or
\* after the subvolume to back up
LocalListings(snapshots) == {snapshots, <<source_subvolume>> \o snapshots}

ParentInit ==
    /\ subvolumes_local \in UNION {LocalListings(l) : l \in LocalInventories}
    /\ subvolumes_remote \in RemoteInventories
    /\ resolver = "none"
    /\ common_parent = None
    /\ parent_pc = "start"
    /\ PruneIdle
    /\ CycleIdle
    /\ PureIdle

\* actions/mod.rs:219-220  the call in ActionsSystem::send_snapshot
ResolveActions ==
    /\ parent_pc = "start"
    /\ common_parent' = get_common_parent(subvolumes_local, subvolumes_remote)
    /\ resolver' = "actions"
    /\ parent_pc' = "done"
    /\ UNCHANGED <<subvolumes_local, subvolumes_remote>>
    /\ UNCHANGED <<pruneVars, cycleVars, pureVars>>

\* main.rs:48-58  the subvolume to back up is looked up in the local listing
\* and both inventories are converted, the `?` ends main with the Err of the
\* lookup or of a conversion; then the call in the main of src/main.rs
utils_resolve(snaps_local, snaps_remote) ==
    IF snaps_local = None \/ snaps_remote = None
    THEN [pc |-> "failed", common_parent |-> None]
    ELSE [pc |-> "done",
          common_parent |-> utils_get_common_parent(snaps_local[1], snaps_remote[1])]

ResolveUtils ==
    /\ parent_pc = "start"
    /\ \E r \in {utils_resolve(
                    local_inventory(
                        get_subvolume_by_path(source_subvolume_path, subvolumes_local),
                        subvolumes_local),
                    get_remote_snapshots(subvolumes_remote))} :
           /\ common_parent' = r.common_parent
           /\ parent_pc' = r.pc
    /\ resolver' = "utils"
    /\ UNCHANGED <<subvolumes_local, subvolumes_remote>>
    /\ UNCHANGED <<pruneVars, cycleVars, pureVars>>

ParentNext == ResolveActions \/ ResolveUtils

SpecParent == ParentInit /\ [][ParentNext]_vars

\* ============================================ claims: common-parent resolver
\* the remote subvolumes received from a snapshot that is still in the local list
CommonRemotes ==
    {r \in Range(subvolumes_remote) :
        /\ r.received_uuid # None
        /\ \E l \in Range(subvolumes_local) : l.uuid = r.received_uuid[1]}

\* the returned snapshot is one of the local list
IsLocalSnapshot(sv) == \E l \in Range(subvolumes_local) : l.uuid = sv.uuid

\* the claimed result: the local snapshot whose uuid is the received uuid of
\* the common remote subvolume with the greatest btrfs path
GreatestPathParent ==
    \E r \in CommonRemotes :
        /\ \A q \in CommonRemotes : str_le(q.btrfs_path, r.btrfs_path)
        /\ common_parent # None
        /\ IsLocalSnapshot(common_parent[1])
        /\ common_parent[1].uuid = r.received_uuid[1]

\* C10: get_common_parent -- either implementation -- returns the local
\* snapshot whose uuid is the received uuid of the common remote subvolume
\* with the greatest btrfs path, whatever the listing order of the two
\* inventories.  utils::get_common_parent lets every match overwrite the
\* result, so the last listed common remote subvolume decides instead.
C10_Claimed ==
    (parent_pc = "done" /\ CommonRemotes # {}) => GreatestPathParent

\* the same statement for ActionsSystem::get_common_parent alone, which sorts
\* the common remote subvolumes by path before taking the last one
ActionsGreatestPathDecides ==
    (parent_pc = "done" /\ resolver = "actions" /\ CommonRemotes # {}) => GreatestPathParent

\* two common remote subvolumes received from different snapshots, the one
\* with the greater path listed first, the local list in the opposite order
ActionsGreatestPathReached ==
    /\ parent_pc = "done"
    /\ resolver = "actions"
    /\ Len(subvolumes_remote) = 3
    /\ Cardinality(CommonRemotes) = 2
    /\ subvolumes_remote[1] \in CommonRemotes
    /\ subvolumes_remote[3] \in CommonRemotes
    /\ str_lt(subvolumes_remote[3].btrfs_path, subvolumes_remote[1].btrfs_path)
    /\ subvolumes_remote[1].received_uuid # subvolumes_remote[3].received_uuid
    /\ Len(subvolumes_local) = 2
    /\ subvolumes_local[2].uuid = subvolumes_remote[1].received_uuid[1]
    /\ common_parent = Some(subvolumes_local[2])

\* C11: either get_common_parent returns a snapshot exactly when some remote
\* subvolume has a received uuid that is the uuid of a local snapshot; the
\* returned value is an element of the local list whose uuid is the received
\* uuid of a remote subvolume; otherwise the result is None.
C11_ParentIffCommon ==
    parent_pc = "done" =>
        /\ (common_parent # None <=> CommonRemotes # {})
        /\ common_parent # None =>
               /\ IsLocalSnapshot(common_parent[1])
               /\ \E r \in Range(subvolumes_remote) :
                      r.received_uuid = Some(common_parent[1].uuid)

\* a single matching pair L, R next to a remote subvolume received from a
\* snapshot that is gone locally: the result is L
C11_Witness ==
    /\ parent_pc = "done"
    /\ Cardinality(CommonRemotes) = 1
    /\ \E r \in Range(subvolumes_remote) : r.received_uuid # None /\ r \notin CommonRemotes
    /\ Len(subvolumes_local) = 2
    /\ common_parent # None
    /\ \E r \in CommonRemotes : r.received_uuid = Some(common_parent[1].uuid)

\* ============================================================ backup cycle
\* ------------------------------------------------ subvolumes and mounts
\* mutant: the filter that is commented out at actions/mod.rs:267, a name that
\* ends with the suffix counts
policed_timestamp_ends_with(sv, suffix) ==
    IF strip_suffix(sv.btrfs_path, suffix) = None THEN None ELSE Some(0)

\* actions/mod.rs:268-276  the filter_map closure of police_snapshots: the
\* timestamp of a subvolume named <timestamp>_<suffix>, None for any other
policed_timestamp(sv, suffix) ==
    LET idx == rfind(sv.btrfs_path, Slash)
    IN  IF idx = None THEN None
        ELSE LET stem == strip_suffix(SubSeq(sv.btrfs_path, idx[1] + 1, Len(sv.btrfs_path)),
                                      <<Underscore>> \o suffix)
             IN  IF stem = None THEN None ELSE parse_from_rfc3339(stem[1])

\* mutant: the first matching entry decides
btrfs_to_fs_path_first_match(mount_information, device, btrfs_path) ==
    LET mi == SelectSeq(mount_information,
                        LAMBDA m : /\ m.fs_type = "btrfs"
                                   /\ m.device = device
                                   /\ strip_prefix(btrfs_path, m.root) # None)
    IN  IF mi = <<>> THEN None
        ELSE Some(join(mi[1].mount_point, strip_prefix(btrfs_path, mi[1].root)[1]))

\* mutant: the device and the file system type are not compared
btrfs_to_fs_path_any_mount(mount_information, device, btrfs_path) ==
    LET mi == SelectSeq(mount_information,
                        LAMBDA m : strip_prefix(btrfs_path, m.root) # None)
        longest == {i \in 1..Len(mi) : \A j \in 1..Len(mi) : Len(mi[j].root) <= Len(mi[i].root)}
    IN  IF mi = <<>> THEN None
        ELSE LET e == mi[Max(longest)]
             IN  Some(join(e.mount_point, strip_prefix(btrfs_path, e.root)[1]))

\* actions/mod.rs:125-150  among the btrfs mounts of the device whose root is
\* a prefix of the path, the last one with the longest root; None stands for
\* Err(PathConversionError)
btrfs_to_fs_path(mount_information, device, btrfs_path) ==
    LET mi == SelectSeq(mount_information,
                        LAMBDA m : /\ m.fs_type = "btrfs"
                                   /\ m.device = device
                                   /\ strip_prefix(btrfs_path, m.root) # None)
        longest == {i \in 1..Len(mi) : \A j \in 1..Len(mi) : Len(mi[j].root) <= Len(mi[i].root)}
    IN  IF mi = <<>> THEN None
        ELSE LET e == mi[Max(longest)]
             IN  Some(join(e.mount_point, strip_prefix(btrfs_path, e.root)[1]))

\* mutant: only the uuid of the subvolume itself is compared
eq_or_received_uuid_only(sv, svi) == sv.uuid = svi.uuid

\* actions/mod.rs:152-162
eq_or_received(sv, svi) ==
    \/ sv.uuid = svi.uuid
    \/ (sv.received_uuid # None /\ sv.received_uuid[1] = svi.uuid)

\* ---------------------------------------------- delete_subvolume: the check
\* "/"
DirRoot == <<Slash>>

\* "/home"
DirHome == <<47, 104, 111, 109, 101>>

\* "/root"
DirRootHome == <<47, 114, 111, 111, 116>>

\* "/tmp"
DirTmp == <<47, 116, 109, 112>>

\* "/link"
LinkPath == <<47, 108, 105, 110, 107>>

\* "home", "root"
NameHome == <<104, 111, 109, 101>>

NameRoot == <<114, 111, 111, 116>>

\* "/home/u"
DirHomeUser == DirHome \o <<Slash, 117>>

ExistingDirs == {DirRoot, DirHome, DirRootHome, DirTmp, DirHomeUser}

\* delete_subvolume.rs:34  vec!["home", "/home", "root", "/"]
RestrictedNames == {NameHome, DirHome, NameRoot, DirRoot}

\* mutant: no name is restricted
is_restricted_never(subvolume) == FALSE

\* delete_subvolume.rs:34, btrfs/mod.rs:164
is_restricted(subvolume) == subvolume \in RestrictedNames

\* the outcome of the call once the path to delete is known: `exec_ok` is the
\* result of the executor, which is called only for an unrestricted name
checked_delete(subvolume, context, exec_ok) ==
    IF subvolume = None THEN [result |-> "io error", exec |-> <<>>]
    ELSE IF is_restricted(subvolume[1]) THEN [result |-> "restricted", exec |-> <<>>]
    ELSE [result |-> IF exec_ok THEN "ok" ELSE "command error",
          exec |-> <<[command |-> "btrfs subvolume delete", path |-> subvolume[1],
                      context |-> context]>>]

\* ---------------------------------------------------- configuration, Init
\* the snapshot of this cycle: Utc::now() is later than every timestamp found
\* in the inventories, its uuid is not known to either file system
NewTs == at_second(MaxOldTs + 1)

NewUuid == MaxOld + 1

new_snapshot ==
    Subvolume(snapshot_path_of(snapshot_path, NewTs, cycle_suffix), NewUuid,
              Some(source_subvolume.uuid), None)

\* the subvolume `btrfs receive` creates in backup_path from a sent snapshot
received_copy(snapshot_btrfs_path, snapshot_uuid, fs) ==
    Subvolume(join(backup_path, last_component(snapshot_btrfs_path)[1]), 0 - (Len(fs) + 1),
              None, Some(snapshot_uuid))

\* names found when the cycle starts: "<timestamp>_h" for the seconds
\* 0..MaxOldTs, "<timestamp>_x_h" (a suffix that ends in the configured one)
\* and "j" (no snapshot name)
CycleNames ==
    {to_rfc3339_opts(at_second(t)) \o <<Underscore>> \o cycle_suffix : t \in 0..MaxOldTs}
        \cup {to_rfc3339_opts(at_second(0)) \o <<Underscore, 120, Underscore>> \o cycle_suffix,
              <<106>>}

InjSeqs(S, n) == {s \in SeqsUpTo(S, n) : \A i, j \in 1..Len(s) : i # j => s[i] # s[j]}

\* the snapshots of earlier cycles still on the local file system
OldLocal ==
    {[i \in 1..Len(ns) |-> Subvolume(join(snapshot_path, ns[i]), i,
                                     Some(source_subvolume.uuid), None)] :
        ns \in InjSeqs(CycleNames, MaxOld)}

\* the remote file system: subvolumes received from a local snapshot (that
\* may be gone locally by now) or created there
OldRemote ==
    {[i \in 1..Len(ns) |-> Subvolume(join(backup_path, ns[i]), 0 - i, None, rs[i])] :
        <<ns, rs>> \in
            {nr \in InjSeqs(CycleNames, MaxOldRemote)
                        \X SeqsUpTo({None} \cup {Some(u) : u \in 1..MaxOld}, MaxOldRemote) :
                Len(nr[1]) = Len(nr[2])}}

CyclePolicies == SeqsUpTo(1..MaxDuration, MaxCyclePolicyLen)

\* the mount table of a host: nothing mounted, or the top of the file system
\* mounted at "/m"
MountTables(device) ==
    {<<>>,
     <<[device |-> device, root |-> <<Slash>>, mount_point |-> <<Slash, 109>>,
        fs_type |-> "btrfs"]>>}

\* src/main.rs reads no mount table; the deletion result of the external
\* `police` of src/bin/backup-btrfs.rs is arbitrary whatever the policy, which
\* is left empty there
CycleInit ==
    /\ program \in {"main", "backup_btrfs"}
    /\ cycle_pc = "create"
    /\ fs_local \in {<<source_subvolume>> \o old : old \in OldLocal}
    /\ fs_remote \in OldRemote
    /\ local_mount_information \in
           (IF program = "main" THEN {<<>>} ELSE MountTables(snapshot_device))
    /\ remote_mount_information \in
           (IF program = "main" THEN {<<>>} ELSE MountTables(backup_device))
    /\ policy_local \in (IF program = "main" THEN CyclePolicies ELSE {<<>>})
    /\ policy_remote \in (IF program = "main" THEN CyclePolicies ELSE {<<>>})
    /\ snapshots_local = <<>>
    /\ latest_local_snapshot = None
    /\ filter_time = at_second(0)
    /\ trace = <<>>
    /\ PruneIdle
    /\ ParentIdle
    /\ PureIdle

\* ------------------------------------------------------------ the trace
\* an external command: `sv` is the subvolume it is issued for, `parent` the
\* parent of a send, `ok` whether it returned Ok
Cmd(op, ctx, sv, parent, ok) ==
    [op |-> op, ctx |-> ctx, sv |-> sv, parent |-> parent, ok |-> ok]

\* the return of a call of `main`
Ret(step, ok) == [op |-> "return", ctx |-> step, sv |-> None, parent |-> None, ok |-> ok]

\* the commands executed when the first k of cmds return Ok and, if there is
\* one, the next returns Err; after `limit` commands the call itself fails
attempt(cmds, k, limit) ==
    LET n == Min({k + 1, limit, Len(cmds)})
    IN  [i \in 1..n |-> [cmds[i] EXCEPT !.ok = (i <= k)]]

\* ... and whether the call returns Ok
succeeds(cmds, k, limit) == k >= Len(cmds) /\ limit >= Len(cmds)

\* the calls of the two `main` functions, in program order
StepsOf(prog) ==
    IF prog = "main" THEN <<"create", "send", "prune_local", "prune_remote">>
    ELSE <<"create", "devices", "send", "prune_local", "prune_remote">>

successor(prog, step) ==
    LET i == CHOOSE j \in 1..Len(StepsOf(prog)) : StepsOf(prog)[j] = step
    IN  IF i = Len(StepsOf(prog)) THEN "done" ELSE StepsOf(prog)[i + 1]

\* mutant: the error of a call is dropped and `main` goes on
propagate_ignoring_error(prog, step, ok) == successor(prog, step)

\* the `?` after every call of `main`: an Err ends the program
propagate(prog, step, ok) == IF ok THEN successor(prog, step) ELSE "failed"

subvolume_at(fs, path) == Head(SelectSeq(fs, LAMBDA e : e.btrfs_path = path))

remove_subvolumes(fs, paths) == SelectSeq(fs, LAMBDA e : e.btrfs_path \notin paths)

\* delete_subvolume.rs:19-32, btrfs/mod.rs:158  Path::canonicalize runs on the
\* machine that runs the program: Btrfs (src/main.rs) calls it in every
\* context, Commander (src/bin/backup-btrfs.rs) in a Local one
canonicalizes(prog, ctx) == prog = "main" \/ ctx = "local"

\* Nothing may be at the path on that machine, which is an io error; the
\* snapshot directories hold no symbolic links, so a path that is found is
\* returned as it is.  The ways a delete_subvolume call can fail:
delete_failures(canonical) ==
    IF canonical THEN {"io error", "command error"} ELSE {"command error"}

\* what one delete_subvolume call adds to the trace: the canonicalize call, if
\* there is one, and the delete command, if the call got as far as the executor
delete_trace(sv, ctx, canonical, r) ==
    (IF canonical THEN <<Cmd("canonicalize", ctx, Some(sv), None, r.result # "io error")>>
     ELSE <<>>)
        \o (IF r.exec = <<>> THEN <<>>
            ELSE <<Cmd("delete", ctx, Some(sv), None, r.result = "ok")>>)

\* a deletion loop: `targets` are the subvolumes in deletion order, each with
\* the Option of the path handed to delete_subvolume (None: the conversion
\* failed); the fail_at-th call of delete_subvolume fails with `failure`
\* (0: none does)
RECURSIVE run_deletes(_, _, _, _, _)
run_deletes(targets, fail_at, failure, ctx, canonical) ==
    IF targets = <<>> THEN [cmds |-> <<>>, deleted |-> {}, ok |-> TRUE]
    ELSE IF Head(targets).path = None THEN [cmds |-> <<>>, deleted |-> {}, ok |-> FALSE]
    ELSE LET r == checked_delete(IF fail_at = 1 /\ failure = "io error" THEN None
                                 ELSE Head(targets).path,
                                 ctx, ~(fail_at = 1 /\ failure = "command error"))
         IN  IF r.result # "ok"
             THEN [cmds |-> delete_trace(Head(targets).sv, ctx, canonical, r),
                   deleted |-> {}, ok |-> FALSE]
             ELSE LET rest == run_deletes(Tail(targets), fail_at - 1, failure, ctx, canonical)
                  IN  [cmds |-> delete_trace(Head(targets).sv, ctx, canonical, r) \o rest.cmds,
                       deleted |-> {Head(targets).sv.btrfs_path} \cup rest.deleted,
                       ok |-> rest.ok]

\* ------------------------------------------- src/bin/backup-btrfs.rs: main
\* what create_snapshot returns: the SubvolumeInfo of the new snapshot
new_snapshot_info == [btrfs_path |-> new_snapshot.btrfs_path, uuid |-> new_snapshot.uuid]

\* backup-btrfs.rs:34-39, actions/mod.rs:165-182  snapshot_subvolume, then
\* get_subvolume_info of the snapshot
BB_CreateSnapshot ==
    /\ program = "backup_btrfs"
    /\ cycle_pc = "create"
    /\ LET cmds == <<Cmd("snapshot", "local", Some(new_snapshot), None, TRUE),
                     Cmd("show", "local", Some(new_snapshot), None, TRUE)>>
       IN  \E k \in 0..Len(cmds) :
               LET ok == succeeds(cmds, k, Len(cmds))
               IN  /\ fs_local' = IF k >= 1 THEN Append(fs_local, new_snapshot) ELSE fs_local
                   /\ latest_local_snapshot' = IF ok THEN Some(new_snapshot_info) ELSE None
                   /\ trace' = trace \o attempt(cmds, k, Len(cmds)) \o <<Ret("create", ok)>>
                   /\ cycle_pc' = propagate(program, "create", ok)
    /\ UNCHANGED <<program, fs_remote, local_mount_information, remote_mount_information,
                   policy_local, policy_remote, snapshots_local, filter_time>>
    /\ UNCHANGED <<pruneVars, parentVars, pureVars>>

\* backup-btrfs.rs:44-48  read_link and get_mount_information on both hosts
BB_GetDevices ==
    /\ program = "backup_btrfs"
    /\ cycle_pc = "devices"
    /\ LET cmds == <<Cmd("read_link", "local", None, None, TRUE),
                     Cmd("read_link", "remote", None, None, TRUE),
                     Cmd("mount", "local", None, None, TRUE),
                     Cmd("mount", "remote", None, None, TRUE)>>
       IN  \E k \in 0..Len(cmds) :
               LET ok == succeeds(cmds, k, Len(cmds))
               IN  /\ trace' = trace \o attempt(cmds, k, Len(cmds)) \o <<Ret("devices", ok)>>
                   /\ cycle_pc' = propagate(program, "devices", ok)
    /\ UNCHANGED <<program, fs_local, fs_remote, local_mount_information,
                   remote_mount_information, policy_local, policy_remote, snapshots_local,
                   latest_local_snapshot, filter_time>>
    /\ UNCHANGED <<pruneVars, parentVars, pureVars>>

\* mutant: every local subvolume is a candidate
children_of_any(parent_subvolume, subvolumes) == subvolumes

\* actions/mod.rs:202-211  the local subvolumes that are children of the source
children_of(parent_subvolume, subvolumes) ==
    SelectSeq(subvolumes,
              LAMBDA sv : sv.parent_uuid # None /\ sv.parent_uuid[1] = parent_subvolume.uuid)

\* backup-btrfs.rs:50-60, actions/mod.rs:184-249  ActionsSystem::send_snapshot
\* mutant: a common parent whose path cannot be translated is forgotten and
\* the snapshot is sent in full
common_parent_info_or_full_send(cp, mount_information, device) ==
    IF cp = None
    THEN [ok |-> TRUE, value |-> None]
    ELSE IF btrfs_to_fs_path(mount_information, device, cp[1].btrfs_path) = None
         THEN [ok |-> TRUE, value |-> None]
         ELSE [ok |-> TRUE, value |-> cp]

\* actions/mod.rs:219-233  get_common_parent(..)?.map(|sv| Ok(SubvolumeInfo {
\* fs_path: btrfs_to_fs_path(..)?, .. })).transpose()?: the common parent with
\* its translated path, or the error of the translation
common_parent_info(cp, mount_information, device) ==
    IF cp = None
    THEN [ok |-> TRUE, value |-> None]
    ELSE IF btrfs_to_fs_path(mount_information, device, cp[1].btrfs_path) = None
         THEN [ok |-> FALSE, value |-> None]
         ELSE [ok |-> TRUE, value |-> cp]

\* actions/mod.rs:184-249  the commands of send_snapshot, given the common
\* parent: the send is not reached when the translation failed
send_commands(parent_subvolume, snapshot, cpi) ==
    <<Cmd("show", "local", Some(parent_subvolume), None, TRUE),
      Cmd("list", "local", None, None, TRUE),
      Cmd("list", "remote", None, None, TRUE)>>
    \o (IF cpi.ok THEN <<Cmd("send", "local", snapshot, cpi.value, TRUE)>> ELSE <<>>)

send_snapshot(parent_subvolume, snapshot, cpi, k) ==
    LET cmds == send_commands(parent_subvolume, snapshot, cpi)
    IN  [ok |-> cpi.ok /\ k >= Len(cmds),
         trace |-> attempt(cmds, k, Len(cmds))]

BB_SendSnapshot ==
    /\ program = "backup_btrfs"
    /\ cycle_pc = "send"
    /\ latest_local_snapshot # None
    /\ \E cpi \in {common_parent_info(
                         get_common_parent(
                             children_of(subvolume_at(fs_local, source_subvolume_path),
                                         fs_local),
                             fs_remote),
                         local_mount_information, snapshot_device)} :
       \E k \in 0..4 :
           LET out == send_snapshot(
                          subvolume_at(fs_local, source_subvolume_path),
                          latest_local_snapshot, cpi, k)
           IN  /\ fs_remote' =
                      IF out.ok
                      THEN Append(fs_remote,
                                  received_copy(latest_local_snapshot[1].btrfs_path,
                                                latest_local_snapshot[1].uuid, fs_remote))
                      ELSE fs_remote
               /\ trace' = trace \o out.trace \o <<Ret("send", out.ok)>>
               /\ cycle_pc' = propagate(program, "send", out.ok)
    /\ UNCHANGED <<program, fs_local, local_mount_information, remote_mount_information,
                   policy_local, policy_remote, snapshots_local, latest_local_snapshot,
                   filter_time>>
    /\ UNCHANGED <<pruneVars, parentVars, pureVars>>

\* actions/mod.rs:265-277  the subvolumes named <timestamp>_<suffix>
policed_snapshots(subvolumes, suffix) ==
    SelectSeq(subvolumes, LAMBDA sv : policed_timestamp(sv, suffix) # None)

\* TryInto<Duration> for CustomDuration: a duration beyond MaxDuration cannot
\* be represented; None stands for the Err
try_into(d) == IF d \in 0..MaxDuration THEN Some(d) ELSE None

\* actions/mod.rs:282  policy.iter().map(|d| d.try_into()).flatten().collect():
\* flatten leaves the Err values out
convert_policy(pol) == SelectSeq(pol, LAMBDA d : try_into(d) # None)

\* actions/mod.rs:284  `police` is a function of the crate policer: all the
\* model knows of its result is that it is a vector of references to
\* different elements of `snapshots`, whatever the policy
PoliceOutputs(pol, snapshots) == InjSeqs(Range(snapshots), Len(snapshots))

\* actions/mod.rs:289-294  the latest snapshot and what was received from it
\* are taken out of the deletion result
without_latest(to_be_deleted, latest) ==
    SelectSeq(to_be_deleted, LAMBDA sv : ~eq_or_received(sv, latest))

\* actions/mod.rs:295-299  the subvolumes to delete, each with its path in
\* the file system
police_targets(svs, mount_information, device) ==
    [i \in 1..Len(svs) |->
        [sv |-> svs[i],
         path |-> btrfs_to_fs_path(mount_information, device, svs[i].btrfs_path)]]

\* actions/mod.rs:251-302  ActionsSystem::police_snapshots on one host
police_snapshots(ctx, step, fs, fs_next, pol, mount_information, device) ==
    \/ /\ fs_next = fs
       /\ trace' = trace \o <<Cmd("list", ctx, None, None, FALSE), Ret(step, FALSE)>>
       /\ cycle_pc' = propagate(program, step, FALSE)
    \/ \E to_be_deleted \in PoliceOutputs(convert_policy(pol),
                                        policed_snapshots(fs, cycle_suffix)) :
       \E targets \in {police_targets(without_latest(to_be_deleted, latest_local_snapshot[1]),
                                      mount_information, device)} :
               \E fail_at \in 0..Len(targets),
                  failure \in delete_failures(canonicalizes(program, ctx)) :
                   \E r \in {run_deletes(targets, fail_at, failure, ctx,
                                        canonicalizes(program, ctx))} :
                       /\ fs_next = remove_subvolumes(fs, r.deleted)
                       /\ trace' = trace \o <<Cmd("list", ctx, None, None, TRUE)>>
                                         \o r.cmds \o <<Ret(step, r.ok)>>
                       /\ cycle_pc' = propagate(program, step, r.ok)

\* backup-btrfs.rs:62-76
BB_PoliceLocal ==
    /\ program = "backup_btrfs"
    /\ cycle_pc = "prune_local"
    /\ latest_local_snapshot # None
    /\ police_snapshots("local", "prune_local", fs_local, fs_local', policy_local,
                        local_mount_information, snapshot_device)
    /\ UNCHANGED <<program, fs_remote, local_mount_information, remote_mount_information,
                   policy_local, policy_remote, snapshots_local, latest_local_snapshot,
                   filter_time>>
    /\ UNCHANGED <<pruneVars, parentVars, pureVars>>

\* backup-btrfs.rs:81-94
BB_PoliceRemote ==
    /\ program = "backup_btrfs"
    /\ cycle_pc = "prune_remote"
    /\ latest_local_snapshot # None
    /\ police_snapshots("remote", "prune_remote", fs_remote, fs_remote', policy_remote,
                        remote_mount_information, backup_device)
    /\ UNCHANGED <<program, fs_local, local_mount_information, remote_mount_information,
                   policy_local, policy_remote, snapshots_local, latest_local_snapshot,
                   filter_time>>
    /\ UNCHANGED <<pruneVars, parentVars, pureVars>>

\* ---------------------------------------------------------- src/main.rs: main
\* main.rs:37-44, btrfs/mod.rs:125-155
Main_CreateSnapshot ==
    /\ program = "main"
    /\ cycle_pc = "create"
    /\ LET cmds == <<Cmd("snapshot", "local", Some(new_snapshot), None, TRUE)>>
       IN  \E k \in 0..Len(cmds) :
               LET ok == succeeds(cmds, k, Len(cmds))
               IN  /\ fs_local' = IF ok THEN Append(fs_local, new_snapshot) ELSE fs_local
                   /\ trace' = trace \o attempt(cmds, k, Len(cmds)) \o <<Ret("create", ok)>>
                   /\ cycle_pc' = propagate(program, "create", ok)
    /\ UNCHANGED <<program, fs_remote, local_mount_information, remote_mount_information,
                   policy_local, policy_remote, snapshots_local, latest_local_snapshot,
                   filter_time>>
    /\ UNCHANGED <<pruneVars, parentVars, pureVars>>

\* the number of commands main can execute before one of its own calls
\* returns an Err: the local inventory fails after the first listing, the
\* remote inventory or the missing latest snapshot after the second
send_limit(locals_r, remotes_r) ==
    IF locals_r = None THEN 1
    ELSE IF remotes_r = None \/ locals_r[1] = <<>> THEN 2
    ELSE 3

\* main.rs:46-82  both inventories, the common parent, the latest local
\* snapshot, then btrfs/mod.rs:176-207 send_snapshot.  command.rs:44-65
\* run_piped checks the exit of the last command of the pipe only: the call
\* may return Ok although `btrfs send` failed and nothing was received.
Main_SendSnapshot ==
    /\ program = "main"
    /\ cycle_pc = "send"
    /\ \E locals_r \in {local_inventory(get_subvolume_by_path(source_subvolume_path, fs_local),
                                         fs_local)},
          remotes_r \in {get_remote_snapshots(fs_remote)} :
       \E limit \in {send_limit(locals_r, remotes_r)} :
       \E latest \in {IF limit = 3 THEN Some(Last(locals_r[1])) ELSE None},
          cp \in {IF limit = 3 THEN utils_get_common_parent(locals_r[1], remotes_r[1])
                  ELSE None} :
       \E cmds \in {<<Cmd("list", "local", None, None, TRUE),
                       Cmd("list", "remote", None, None, TRUE),
                       Cmd("send", "local", latest, cp, TRUE)>>} :
           \E k \in 0..Len(cmds), received \in BOOLEAN :
               LET ok == succeeds(cmds, k, limit)
               IN  /\ received => ok
                   /\ snapshots_local' = IF ok THEN locals_r[1] ELSE snapshots_local
                   /\ latest_local_snapshot' = IF ok THEN latest ELSE latest_local_snapshot
                   /\ fs_remote' =
                          IF received
                          THEN Append(fs_remote,
                                      received_copy(latest[1].path, latest[1].uuid, fs_remote))
                          ELSE fs_remote
                   /\ trace' = trace \o attempt(cmds, k, limit) \o <<Ret("send", ok)>>
                   /\ cycle_pc' = propagate(program, "send", ok)
    /\ UNCHANGED <<program, fs_local, local_mount_information, remote_mount_information,
                   policy_local, policy_remote, filter_time>>
    /\ UNCHANGED <<pruneVars, parentVars, pureVars>>

\* main.rs:85  Utc::now() after the send
FilterTimes == {at_second(MaxOldTs + 1), at_second(MaxOldTs + 2)}

\* main.rs:94-96, 124-126  the deletion result without the protected path
without_path(snapshots_delete, protected) ==
    SelectSeq(snapshots_delete, LAMBDA e : e.path # protected.path)

\* the subvolume a path names and the path handed to delete_subvolume
targets_of(fs, snapshots_delete) ==
    [i \in 1..Len(snapshots_delete) |->
        [sv |-> subvolume_at(fs, snapshots_delete[i].path),
         path |-> Some(snapshots_delete[i].path)]]

\* main.rs:85-102  the retention engine on snapshots_local, then the local
\* deletion loop
Main_PruneLocal ==
    /\ program = "main"
    /\ cycle_pc = "prune_local"
    /\ latest_local_snapshot # None
    /\ \E now \in FilterTimes :
       \E snapshots_delete_local \in
              {find_backups_to_be_deleted(now, policy_local, snapshots_local, cycle_suffix)} :
       \E targets \in {targets_of(fs_local,
                                  without_path(snapshots_delete_local,
                                               latest_local_snapshot[1]))} :
               \E fail_at \in 0..Len(targets),
                  failure \in delete_failures(canonicalizes(program, "local")) :
                   \E r \in {run_deletes(targets, fail_at, failure, "local",
                                        canonicalizes(program, "local"))} :
                       /\ filter_time' = now
                       /\ fs_local' = remove_subvolumes(fs_local, r.deleted)
                       /\ trace' = trace \o r.cmds \o <<Ret("prune_local", r.ok)>>
                       /\ cycle_pc' = propagate(program, "prune_local", r.ok)
    /\ UNCHANGED <<program, fs_remote, local_mount_information, remote_mount_information,
                   policy_local, policy_remote, snapshots_local, latest_local_snapshot>>
    /\ UNCHANGED <<pruneVars, parentVars, pureVars>>

\* main.rs:117-122  the remote snapshot received from the latest local one
snapshot_remote_common(snapshots_remote, latest) ==
    LET found == SelectSeq(snapshots_remote, LAMBDA e : e.received_uuid = latest.uuid)
    IN  IF found = <<>> THEN None ELSE Some(Head(found))

\* main.rs:105-137  the remote inventory again, the retention engine on it,
\* then the remote deletion loop
Main_PruneRemote ==
    /\ program = "main"
    /\ cycle_pc = "prune_remote"
    /\ latest_local_snapshot # None
    /\ \E remotes_r \in {get_remote_snapshots(fs_remote)} :
       \E common \in {IF remotes_r = None THEN None
                      ELSE snapshot_remote_common(remotes_r[1], latest_local_snapshot[1])} :
           \/ /\ fs_remote' = fs_remote
              /\ trace' = trace \o <<Cmd("list", "remote", None, None, FALSE),
                                     Ret("prune_remote", FALSE)>>
              /\ cycle_pc' = propagate(program, "prune_remote", FALSE)
           \/ /\ common = None
              /\ fs_remote' = fs_remote
              /\ trace' = trace \o <<Cmd("list", "remote", None, None, TRUE),
                                     Ret("prune_remote", FALSE)>>
              /\ cycle_pc' = propagate(program, "prune_remote", FALSE)
           \/ /\ common # None
              /\ \E targets \in
                     {targets_of(fs_remote,
                                 without_path(find_backups_to_be_deleted(
                                                  filter_time, policy_remote, remotes_r[1],
                                                  cycle_suffix),
                                              common[1]))} :
                     \E fail_at \in 0..Len(targets),
                        failure \in delete_failures(canonicalizes(program, "remote")) :
                         \E r \in {run_deletes(targets, fail_at, failure, "remote",
                                              canonicalizes(program, "remote"))} :
                             /\ fs_remote' = remove_subvolumes(fs_remote, r.deleted)
                             /\ trace' = trace \o <<Cmd("list", "remote", None, None, TRUE)>>
                                               \o r.cmds \o <<Ret("prune_remote", r.ok)>>
                             /\ cycle_pc' = propagate(program, "prune_remote", r.ok)
    /\ UNCHANGED <<program, fs_local, local_mount_information, remote_mount_information,
                   policy_local, policy_remote, snapshots_local, latest_local_snapshot,
                   filter_time>>
    /\ UNCHANGED <<pruneVars, parentVars, pureVars>>

CycleNext ==
    \/ BB_CreateSnapshot
    \/ BB_GetDevices
    \/ BB_SendSnapshot
    \/ BB_PoliceLocal
    \/ BB_PoliceRemote
    \/ Main_CreateSnapshot
    \/ Main_SendSnapshot
    \/ Main_PruneLocal
    \/ Main_PruneRemote

SpecCycle == CycleInit /\ [][CycleNext]_vars

\* ===================================================== claims: backup cycle
Deletes == {i \in 1..Len(trace) : trace[i].op = "delete"}

\* the retention engine of src/main.rs put the latest local snapshot in its
\* deletion result of the local pass
EnginePutLatestInResult ==
    /\ program = "main"
    /\ cycle_pc \in {"prune_remote", "done"}
    /\ \E e \in Range(find_backups_to_be_deleted(filter_time, policy_local, snapshots_local,
                                                 cycle_suffix)) :
           e.uuid = NewUuid

\* C1: no delete command is issued for the snapshot created in this cycle nor
\* for a remote subvolume received from it, in either program and for every
\* policy, filter time and inventory; once created, the snapshot stays on the
\* local file system.
C1_LatestNeverDeleted ==
    /\ \A i \in Deletes :
           /\ trace[i].sv[1].uuid # NewUuid
           /\ trace[i].sv[1].received_uuid # Some(NewUuid)
    /\ (\E i \in 1..Len(trace) : trace[i].op = "snapshot" /\ trace[i].ok) =>
           \E sv \in Range(fs_local) : sv.uuid = NewUuid

\* a finished cycle of src/main.rs in which the engine put the latest snapshot
\* in the local deletion result and the remote pass deleted older copies
C1_Witness ==
    /\ EnginePutLatestInResult
    /\ cycle_pc = "done"
    /\ \E i \in Deletes : trace[i].ctx = "remote" /\ trace[i].ok

IsCommand(e) == e.op # "return"

\* the place of a state-changing command in the order of a cycle
Phase(e) ==
    CASE e.op = "snapshot" -> 1
      [] e.op = "send" -> 2
      [] e.op = "delete" /\ e.ctx = "local" -> 3
      [] e.op = "delete" /\ e.ctx = "remote" -> 4
      [] OTHER -> 0

Changing == {i \in 1..Len(trace) : Phase(trace[i]) > 0}

\* C2: the state-changing commands of a cycle come in the order snapshot, send,
\* local deletes, remote deletes, with one snapshot and one send at most;
\* after a command or a call that returned an error no further command is
\* executed and no further call returns; every delete comes after a successful
\* send of the new snapshot, every remote delete after the local pruning call
\* has returned Ok.
C2_OrderedAndStopsAtFirstError ==
    /\ \A i, j \in Changing :
           i < j => /\ Phase(trace[i]) <= Phase(trace[j])
                    /\ (Phase(trace[i]) = Phase(trace[j]) => trace[i].op = "delete")
    /\ \A i \in 1..Len(trace) :
           ~trace[i].ok =>
               /\ \A j \in (i + 1)..Len(trace) : ~IsCommand(trace[j])
               /\ (~IsCommand(trace[i]) => i = Len(trace))
    /\ (\E i \in 1..Len(trace) : ~trace[i].ok) => cycle_pc = "failed"
    /\ \A i \in Deletes :
           \E j \in 1..(i - 1) :
               /\ trace[j].op = "send"
               /\ trace[j].ok
               /\ trace[j].sv[1].uuid = NewUuid
    /\ \A i \in Deletes :
           trace[i].ctx = "remote" => \E j \in 1..(i - 1) : trace[j] = Ret("prune_local", TRUE)

\* a cycle that ran to its end with a local and a remote delete
C2_Witness ==
    /\ cycle_pc = "done"
    /\ \A i \in 1..Len(trace) : trace[i].ok
    /\ \E i, j \in Deletes : trace[i].ctx = "local" /\ trace[j].ctx = "remote"

\* ================================================ newest common parent
\* Inventories named as the program names them: a local snapshot is
\* <snapshot_path>/<timestamp>_<suffix>, `btrfs receive` keeps the name, and the
\* remote file system holds received copies in the directories "/a" and "/b"
\* (the backup path of today and an earlier one).
NamedTimes == {at_second(t) : t \in 0..(MaxOldTs + 1)}

NamedLocal ==
    {[i \in 1..Len(ts) |-> Subvolume(snapshot_path_of(snapshot_path, ts[i], cycle_suffix), i,
                                     Some(source_subvolume.uuid), None)] :
        ts \in InjSeqs(NamedTimes, MaxLocal)}

\* the uuid of the local snapshot a name belongs to; a snapshot that is gone
\* locally had a uuid no local snapshot has
origin_uuid(subvols_local, name) ==
    LET idx == {i \in 1..Len(subvols_local) :
                   last_component(subvols_local[i].btrfs_path) = name}
    IN  IF idx = {} THEN MaxLocal + 1 ELSE subvols_local[Min(idx)].uuid

NamedRemote(subvols_local) ==
    {[i \in 1..Len(ps) |->
         Subvolume(ps[i], 0 - i, None, Some(origin_uuid(subvols_local, last_component(ps[i]))))] :
        ps \in InjSeqs({snapshot_path_of(dir, t, cycle_suffix) :
                           dir \in {<<Slash, 97>>, backup_path}, t \in NamedTimes},
                       MaxRemote)}

NewestInit ==
    /\ subvolumes_local \in UNION {LocalListings(l) : l \in NamedLocal}
    /\ subvolumes_remote \in NamedRemote(subvolumes_local)
    /\ resolver = "none"
    /\ common_parent = None
    /\ parent_pc = "start"
    /\ PruneIdle
    /\ CycleIdle
    /\ PureIdle

SpecNewest == NewestInit /\ [][ParentNext]_vars

\* the local snapshots that have been received on the remote host
CommonLocals ==
    {l \in Range(subvolumes_local) :
        \E r \in Range(subvolumes_remote) : r.received_uuid = Some(l.uuid)}

name_timestamp(sv) == get_timestamp_suffix_from_snapshot_path(sv.btrfs_path)[1].timestamp

NewestCommonLocal ==
    /\ common_parent # None
    /\ \E c \in CommonLocals :
           /\ c.uuid = common_parent[1].uuid
           /\ \A l \in CommonLocals : dt_le(name_timestamp(l), name_timestamp(c))

\* C12: get_common_parent returns the local snapshot with the latest timestamp
\* in its name among those received on the remote host, for every pair of
\* inventories.  ActionsSystem::get_common_parent takes the greatest remote
\* path, utils::get_common_parent the last listed match; neither compares
\* timestamps.
C12_Claimed ==
    (parent_pc = "done" /\ CommonLocals # {}) => NewestCommonLocal

\* the statement for ActionsSystem::get_common_parent alone
C12_ClaimedForActions ==
    (parent_pc = "done" /\ resolver = "actions" /\ CommonLocals # {}) => NewestCommonLocal

\* what does hold for ActionsSystem::get_common_parent: the newest one when
\* all received copies lie in one directory
ActionsNewestInOneDirectory ==
    (/\ parent_pc = "done"
     /\ resolver = "actions"
     /\ CommonLocals # {}
     /\ \A r \in Range(subvolumes_remote) : strip_prefix(r.btrfs_path, backup_path) # None)
        => NewestCommonLocal

ActionsNewestReached ==
    /\ parent_pc = "done"
    /\ resolver = "actions"
    /\ Len(subvolumes_local) = 2
    /\ Cardinality(CommonLocals) = 2
    /\ \A r \in Range(subvolumes_remote) : strip_prefix(r.btrfs_path, backup_path) # None
    /\ dt_lt(name_timestamp(subvolumes_local[2]), name_timestamp(subvolumes_local[1]))
    /\ common_parent = Some(subvolumes_local[1])

\* ===================================================== send_snapshot alone
\* The call of ActionsSystem::send_snapshot after create_snapshot and the
\* device lookup succeeded.  Besides snapshots of the source the local file
\* system holds subvolumes that are no snapshot of it, and the remote one holds
\* subvolumes received from the source itself; `trace` starts with this call.
SendNames ==
    {to_rfc3339_opts(at_second(t)) \o <<Underscore>> \o cycle_suffix : t \in 0..MaxOldTs}

SendLocal ==
    {[i \in 1..Len(ns) |-> Subvolume(join(snapshot_path, ns[i]), i, ps[i], None)] :
        <<ns, ps>> \in
            {np \in InjSeqs(SendNames, MaxOld)
                        \X SeqsUpTo({None, Some(source_subvolume.uuid)}, MaxOld) :
                Len(np[1]) = Len(np[2])}}

SendRemote ==
    {[i \in 1..Len(ns) |-> Subvolume(join(backup_path, ns[i]), 0 - i, None, rs[i])] :
        <<ns, rs>> \in
            {nr \in InjSeqs(SendNames, MaxOldRemote)
                        \X SeqsUpTo({None} \cup {Some(u) : u \in 0..MaxOld}, MaxOldRemote) :
                Len(nr[1]) = Len(nr[2])}}

SendInit ==
    /\ program = "backup_btrfs"
    /\ cycle_pc = "send"
    /\ fs_local \in {<<source_subvolume>> \o old \o <<new_snapshot>> : old \in SendLocal}
    /\ fs_remote \in SendRemote
    /\ local_mount_information \in MountTables(snapshot_device)
    /\ remote_mount_information = <<>>
    /\ policy_local = <<>>
    /\ policy_remote = <<>>
    /\ snapshots_local = <<>>
    /\ latest_local_snapshot = Some(new_snapshot_info)
    /\ filter_time = at_second(0)
    /\ trace = <<>>
    /\ PruneIdle
    /\ ParentIdle
    /\ PureIdle

SendNext == BB_SendSnapshot

SpecSend == SendInit /\ [][SendNext]_vars

\* the local snapshots of the source subvolume
SourceSnapshots ==
    {l \in Range(fs_local) : l.parent_uuid = Some(source_subvolume.uuid)}

\* ... that some remote subvolume was received from
ReceivedSourceSnapshots ==
    {l \in SourceSnapshots : \E r \in Range(fs_remote) : r.received_uuid = Some(l.uuid)}

\* the send commands the step adds to the trace
NewSends == {i \in (Len(trace) + 1)..Len(trace') : trace'[i].op = "send"}

\* C13: the parent of a send is a local subvolume whose parent uuid is the
\* uuid of the source subvolume; when no remote subvolume was received from
\* such a snapshot -- whatever was received from the source itself or from
\* another local subvolume -- the send is issued without parent.
C13_OnlySourceSnapshotsAreCandidates ==
    [][\A i \in NewSends :
           /\ trace'[i].parent # None => trace'[i].parent[1] \in ReceivedSourceSnapshots
           /\ ReceivedSourceSnapshots = {} => trace'[i].parent = None]_vars

\* a full send although the remote file system holds a subvolume received from
\* the source itself and one received from a local subvolume that is no
\* snapshot of the source
C13_Witness ==
    /\ cycle_pc = "prune_local"
    /\ \E i \in 1..Len(trace) : trace[i].op = "send" /\ trace[i].ok /\ trace[i].parent = None
    /\ \E r \in Range(fs_remote) : r.received_uuid = Some(source_subvolume.uuid)
    /\ \E r \in Range(fs_remote), l \in Range(fs_local) :
           /\ l.parent_uuid = None
           /\ l.uuid # source_subvolume.uuid
           /\ r.received_uuid = Some(l.uuid)

\* the common parent get_common_parent finds in the state before the step
FoundCommonParent ==
    get_common_parent(children_of(subvolume_at(fs_local, source_subvolume_path), fs_local),
                      fs_remote)

\* the path of the common parent cannot be translated
UntranslatedParent ==
    /\ FoundCommonParent # None
    /\ btrfs_to_fs_path(local_mount_information, snapshot_device,
                        FoundCommonParent[1].btrfs_path) = None

\* C25: when a common parent is found and its btrfs path cannot be translated
\* into a path of the file system, send_snapshot returns the error, issues no
\* send command and leaves the remote file system alone; a send without
\* parent is issued only when get_common_parent found nothing.
C25_NoSendWithoutTranslatedParent ==
    [][BB_SendSnapshot =>
           /\ UntranslatedParent =>
                  /\ NewSends = {}
                  /\ trace'[Len(trace')] = Ret("send", FALSE)
                  /\ cycle_pc' = "failed"
                  /\ fs_remote' = fs_remote
           /\ \A i \in NewSends :
                  /\ trace'[i].parent = FoundCommonParent
                  /\ trace'[i].parent = None => FoundCommonParent = None]_vars

\* the three queries succeeded, a common parent was found, the mount table
\* does not translate its path: the call failed without a send
C25_Witness ==
    /\ cycle_pc = "failed"
    /\ Len(trace) = 4
    /\ \A i \in 1..3 : trace[i].ok
    /\ trace[4] = Ret("send", FALSE)
    /\ local_mount_information = <<>>
    /\ \E l \in Range(fs_local), r \in Range(fs_remote) :
           /\ l.parent_uuid = Some(source_subvolume.uuid)
           /\ r.received_uuid = Some(l.uuid)

\* ===================================================== btrfs_to_fs_path
\* One call of ActionsSystem::btrfs_to_fs_path on a mount table of at most
\* MaxMounts entries: two devices, two file system types, the roots "/",
\* "/s" and "/s/", two mount points.
MaxMounts == 3

RootSlash == <<Slash>>

RootSub == <<Slash, 115>>

RootSubSlash == <<Slash, 115, Slash>>

PathMountPoints == {<<Slash, 109>>, <<Slash, 110>>}

PathEntries ==
    [device : {snapshot_device, backup_device}, fs_type : {"btrfs", "ext4"},
     root : {RootSlash, RootSub, RootSubSlash}, mount_point : PathMountPoints]

\* "/s/x", "/s/x/", "/sx", "/s", "/t"
PathSubX == <<Slash, 115, Slash, 120>>

PathInputs ==
    {PathSubX, <<Slash, 115, Slash, 120, Slash>>, <<Slash, 115, 120>>, <<Slash, 115>>,
     <<Slash, 116>>}

PathInit ==
    /\ path_mount_information \in SeqsUpTo(PathEntries, MaxMounts)
    /\ path_device = snapshot_device
    /\ path_btrfs_path \in PathInputs
    /\ path_result = None
    /\ path_pc = "call"
    /\ ListIdle
    /\ NameIdle
    /\ DelIdle
    /\ PruneIdle
    /\ ParentIdle
    /\ CycleIdle

PathConvert ==
    /\ path_pc = "call"
    /\ path_result' = btrfs_to_fs_path(path_mount_information, path_device, path_btrfs_path)
    /\ path_pc' = "done"
    /\ UNCHANGED <<path_mount_information, path_device, path_btrfs_path, listVars, nameVars, delVars>>
    /\ UNCHANGED <<pruneVars, parentVars, cycleVars>>

PathNext == PathConvert

SpecPath == PathInit /\ [][PathNext]_vars

\* the names between the separators of an absolute path, in order; empty
\* names and "." are none
RECURSIVE NamesOf(_, _, _)
NamesOf(text, name, names) ==
    IF text = <<>>
    THEN (IF name \in {<<>>, <<Dot>>} THEN names ELSE Append(names, name))
    ELSE IF Head(text) = Slash
         THEN NamesOf(Tail(text), <<>>,
                      IF name \in {<<>>, <<Dot>>} THEN names ELSE Append(names, name))
         ELSE NamesOf(Tail(text), Append(name, Head(text)), names)

RECURSIVE NamesText(_)
NamesText(names) ==
    IF names = <<>> THEN <<>>
    ELSE IF Len(names) = 1 THEN names[1]
    ELSE names[1] \o <<Slash>> \o NamesText(Tail(names))

\* `root` is a prefix of `path`: the names of the root are the first names of
\* the path
IsPathPrefix(root, path) ==
    /\ Len(NamesOf(root, <<>>, <<>>)) <= Len(NamesOf(path, <<>>, <<>>))
    /\ SubSeq(NamesOf(path, <<>>, <<>>), 1, Len(NamesOf(root, <<>>, <<>>)))
           = NamesOf(root, <<>>, <<>>)

\* the part of `path` after `root`, for a root that is a prefix of it: the
\* names of the path that follow those of the root
AfterRoot(root, path) ==
    NamesText(SubSeq(NamesOf(path, <<>>, <<>>), Len(NamesOf(root, <<>>, <<>>)) + 1,
                     Len(NamesOf(path, <<>>, <<>>))))

\* the positions of the mount table that qualify
Candidates ==
    {i \in 1..Len(path_mount_information) :
        /\ path_mount_information[i].fs_type = "btrfs"
        /\ path_mount_information[i].device = path_device
        /\ IsPathPrefix(path_mount_information[i].root, path_btrfs_path)}

Through(i) ==
    Some(path_mount_information[i].mount_point \o <<Slash>>
            \o AfterRoot(path_mount_information[i].root, path_btrfs_path))

\* the root "/s", however it is written
IsRootSub(root) == root \in {RootSub, RootSubSlash}

\* C14: the result is the mount point of a qualifying entry with the longest
\* root joined with the rest of the path; with qualifying roots "/" and "/s"
\* the path "/s/x" resolves through an entry of the root /s (written "/s" or
\* "/s/") and through no "/" entry, wherever the entries stand in the table.
C14_LongestRootDecides ==
    (path_pc = "done" /\ Candidates # {}) =>
        /\ \E i \in Candidates :
               /\ \A j \in Candidates : Len(path_mount_information[j].root)
                                            <= Len(path_mount_information[i].root)
               /\ path_result = Through(i)
        /\ (/\ path_btrfs_path = PathSubX
            /\ \E i \in Candidates : path_mount_information[i].root = RootSlash
            /\ \E j \in Candidates : IsRootSub(path_mount_information[j].root))
           => /\ \E j \in Candidates : /\ IsRootSub(path_mount_information[j].root)
                                       /\ path_result = Through(j)
              /\ \A i \in Candidates : path_mount_information[i].root = RootSlash
                                           => path_result # Through(i)

\* "/s/x" resolved through "/s" although a qualifying "/" entry is listed after it
C14_Witness ==
    /\ path_pc = "done"
    /\ path_btrfs_path = PathSubX
    /\ \E i, j \in Candidates :
           /\ j < i
           /\ path_mount_information[i].root = RootSlash
           /\ path_mount_information[j].root = RootSub
           /\ path_result = Through(j)

\* C15: the call fails exactly when no entry qualifies, and a result always is
\* the conversion through a qualifying entry: an entry of another device or of
\* another file system type never decides, whatever its root.
C15_ErrorIffNoCandidate ==
    path_pc = "done" =>
        /\ path_result = None <=> Candidates = {}
        /\ path_result # None => \E i \in Candidates : path_result = Through(i)

\* the error although the table holds an entry of another device and one of
\* another file system type whose roots are prefixes of the path
C15_Witness ==
    /\ path_pc = "done"
    /\ path_result = None
    /\ \E i \in 1..Len(path_mount_information) :
           /\ path_mount_information[i].device # path_device
           /\ path_mount_information[i].fs_type = "btrfs"
           /\ IsPathPrefix(path_mount_information[i].root, path_btrfs_path)
    /\ \E i \in 1..Len(path_mount_information) :
           /\ path_mount_information[i].device = path_device
           /\ path_mount_information[i].fs_type # "btrfs"
           /\ IsPathPrefix(path_mount_information[i].root, path_btrfs_path)

\* a result through the "/" entry of the device while an entry of another
\* device has the longer matching root "/s"
C15_WitnessLongerForeignRoot ==
    /\ path_pc = "done"
    /\ path_btrfs_path = PathSubX
    /\ \E i \in Candidates : path_mount_information[i].root = RootSlash /\ path_result = Through(i)
    /\ \E i \in 1..Len(path_mount_information) :
           /\ path_mount_information[i].device # path_device
           /\ path_mount_information[i].root = RootSub

\* ===================================================== get_subvolumes
\* The parser of the output of `btrfs subvolume list -tupqRo --sort=rootid`:
\* Commander::get_subvolumes (src/commands/get_subvolumes.rs) and the older
\* Btrfs::extract_subvolumes (src/btrfs/mod.rs).  Texts are sequences of
\* character codes.
Newline == 10

Space == 32

Tab == 9

Hyphen == 45

\* u8::is_ascii_whitespace: space, tab, line feed, form feed, carriage return
ascii_whitespace == {Space, Tab, Newline, 12, 13}

\* str::split(c): the pieces between the occurrences, at least one piece
RECURSIVE split(_, _)
split(s, c) ==
    IF find(s, c) = None THEN <<s>>
    ELSE <<SubSeq(s, 1, find(s, c)[1] - 1)>> \o split(SubSeq(s, find(s, c)[1] + 1, Len(s)), c)

\* str::split_ascii_whitespace: the maximal runs of other characters
RECURSIVE split_ascii_whitespace(_)
split_ascii_whitespace(s) ==
    IF s = <<>> THEN <<>>
    ELSE IF s[1] \in ascii_whitespace THEN split_ascii_whitespace(Tail(s))
    ELSE LET ws == {i \in 1..Len(s) : s[i] \in ascii_whitespace}
             end == IF ws = {} THEN Len(s) + 1 ELSE Min(ws)
         IN  <<SubSeq(s, 1, end - 1)>> \o split_ascii_whitespace(SubSeq(s, end, Len(s)))

is_hex_digit(c) == c \in 48..57 \/ c \in 97..102 \/ c \in 65..70

hex_value(c) == IF c \in 48..57 THEN c - 48 ELSE IF c \in 97..102 THEN c - 87 ELSE c - 55

\* the positions of the hyphens of the hyphenated form
HyphenPositions == {9, 14, 19, 24}

\* "urn:uuid:"
UrnPrefix ==
    <<117, 114, 110, 58, 117, 117, 105, 100, 58>>

\* "{" and "}"
BraceOpen == 123

BraceClose == 125

\* Uuid::from_str, the simple form: 32 hexadecimal digits.  The value is the
\* sequence of the 32 digit values, None stands for Err
parse_simple(s) ==
    IF Len(s) = 32 /\ \A i \in 1..32 : is_hex_digit(s[i])
    THEN Some([i \in 1..32 |-> hex_value(s[i])])
    ELSE None

\* Uuid::from_str, the hyphenated form: 36 characters, hyphens after the
\* digits 8, 12, 16 and 20
parse_hyphenated(s) ==
    IF /\ Len(s) = 36
       /\ \A i \in 1..36 : IF i \in HyphenPositions THEN s[i] = Hyphen
                                                     ELSE is_hex_digit(s[i])
    THEN Some([i \in 1..32 |-> hex_value(SelectSeq(s, LAMBDA c : c # Hyphen)[i])])
    ELSE None

\* Uuid::from_str (crate uuid 1.x) decides by the length of the text: 32
\* characters are the simple form, 36 the hyphenated form, 38 the hyphenated
\* form in braces, 45 the hyphenated form after "urn:uuid:"; any other text
\* is an error
Uuid_from_str(s) ==
    IF Len(s) = 32 THEN parse_simple(s)
    ELSE IF Len(s) = 36 THEN parse_hyphenated(s)
    ELSE IF Len(s) = 38 /\ s[1] = BraceOpen /\ s[38] = BraceClose
         THEN parse_hyphenated(SubSeq(s, 2, 37))
    ELSE IF Len(s) = 45 /\ SubSeq(s, 1, Len(UrnPrefix)) = UrnPrefix
         THEN parse_hyphenated(SubSeq(s, Len(UrnPrefix) + 1, 45))
    ELSE None

\* get_subvolumes.rs:49-59  the words of the expected header line: "ID", "gen",
\* "parent", "top", "level", "parent_uuid", "received_uuid", "uuid", "path"
ExpectedHeader ==
    <<<<73, 68>>,
      <<103, 101, 110>>,
      <<112, 97, 114, 101, 110, 116>>,
      <<116, 111, 112>>,
      <<108, 101, 118, 101, 108>>,
      <<112, 97, 114, 101, 110, 116, 95, 117, 117, 105, 100>>,
      <<114, 101, 99, 101, 105, 118, 101, 100, 95, 117, 117, 105, 100>>,
      <<117, 117, 105, 100>>,
      <<112, 97, 116, 104>>>>

\* "5f0b151b-52e4-4445-aa94-d07056733a1f"
TextUuidA ==
    <<53, 102, 48, 98, 49, 53, 49, 98, 45, 53, 50, 101, 52, 45, 52, 52, 52, 53, 45, 97,
    97, 57, 52, 45, 100, 48, 55, 48, 53, 54, 55, 51, 51, 97, 49, 102>>

UuidValueA ==
    <<5, 15, 0, 11, 1, 5, 1, 11, 5, 2, 14, 4, 4, 4, 4, 5, 10, 10, 9, 4, 13, 0, 7, 0, 5,
    6, 7, 3, 3, 10, 1, 15>>

\* "dc4e1039-9241-cd47-9c10-a5d1ce15ba20"
TextUuidB ==
    <<100, 99, 52, 101, 49, 48, 51, 57, 45, 57, 50, 52, 49, 45, 99, 100, 52, 55, 45,
    57, 99, 49, 48, 45, 97, 53, 100, 49, 99, 101, 49, 53, 98, 97, 50, 48>>

UuidValueB ==
    <<13, 12, 4, 14, 1, 0, 3, 9, 9, 2, 4, 1, 12, 13, 4, 7, 9, 12, 1, 0, 10, 5, 13, 1,
    12, 14, 1, 5, 11, 10, 2, 0>>

\* "11eed410-7829-744e-8288-35c21d278f8e"
TextUuidC ==
    <<49, 49, 101, 101, 100, 52, 49, 48, 45, 55, 56, 50, 57, 45, 55, 52, 52, 101, 45,
    56, 50, 56, 56, 45, 51, 53, 99, 50, 49, 100, 50, 55, 56, 102, 56, 101>>

UuidValueC ==
    <<1, 1, 14, 14, 13, 4, 1, 0, 7, 8, 2, 9, 7, 4, 4, 14, 8, 2, 8, 8, 3, 5, 12, 2, 1,
    13, 2, 7, 8, 15, 8, 14>>

\* "32C672FA-D3CE-0B4E-8EAA-AB9205F377CA"
TextUuidD ==
    <<51, 50, 67, 54, 55, 50, 70, 65, 45, 68, 51, 67, 69, 45, 48, 66, 52, 69, 45, 56,
    69, 65, 65, 45, 65, 66, 57, 50, 48, 53, 70, 51, 55, 55, 67, 65>>

UuidValueD ==
    <<3, 2, 12, 6, 7, 2, 15, 10, 13, 3, 12, 14, 0, 11, 4, 14, 8, 14, 10, 10, 10, 11, 9,
    2, 0, 5, 15, 3, 7, 7, 12, 10>>

\* "-"
TextNoUuid ==
    <<45>>

\* "11eed410-7829-744e-8288-35c21d278f8g"
TextBadUuid ==
    <<49, 49, 101, 101, 100, 52, 49, 48, 45, 55, 56, 50, 57, 45, 55, 52, 52, 101, 45,
    56, 50, 56, 56, 45, 51, 53, 99, 50, 49, 100, 50, 55, 56, 102, 56, 103>>

\* "{11eed410-7829-744e-8288-35c21d278f8e}"
TextUuidBraced == <<BraceOpen>> \o TextUuidC \o <<BraceClose>>

\* "urn:uuid:5f0b151b-52e4-4445-aa94-d07056733a1f"
TextUuidUrn == UrnPrefix \o TextUuidA

\* "urn:uuid:5f0b151b52e44445aa94d07056733a1f": no form of a uuid
TextUrnSimple == UrnPrefix \o SelectSeq(TextUuidA, LAMBDA c : c # Hyphen)

\* "5"
TextNumber ==
    <<53>>

\* "x"
TextRelativePath ==
    <<120>>

\* "/x"
TextAbsolutePath ==
    <<47, 120>>

\* "--"
TextDashes ==
    <<45, 45>>

\* get_subvolumes.rs:40-64 and btrfs/mod.rs:252-270  the check of the first line
\* mutant: any first line is accepted
header_matches_any(line) == TRUE

header_matches(line) == split_ascii_whitespace(line) = ExpectedHeader

\* btrfs/mod.rs:279  format!("/{}", tokens[7])
format_slash(token) == <<Slash>> \o token

\* mutant: the path always gets a "/" in front
leading_slash_always(token) == <<Slash>> \o token

\* get_subvolumes.rs:74-77  btrfs_path
leading_slash(token) ==
    IF token # <<>> /\ token[1] = Slash THEN token ELSE <<Slash>> \o token

\* Result<Vec<Subvolume>>
Ok(v) == [ok |-> TRUE, value |-> v]

Err(e) == [ok |-> FALSE, error |-> e]

\* mutant: a line whose uuid does not parse is skipped
parse_data_line_skipping(r, line, legacy) ==
    LET tokens == split_ascii_whitespace(line)
    IN  IF ~r.ok \/ Len(tokens) # 8 \/ Uuid_from_str(tokens[7]) = None THEN r
        ELSE Ok(Append(r.value,
                       Subvolume(IF legacy THEN format_slash(tokens[8])
                                           ELSE leading_slash(tokens[8]),
                                 Uuid_from_str(tokens[7])[1],
                                 Uuid_from_str(tokens[5]), Uuid_from_str(tokens[6]))))

\* get_subvolumes.rs:66-88  the body of the loop over the data lines: `r` is
\* Ok(subvolumes) while the loop runs and the error once `?` has returned
parse_data_line(r, line, legacy) ==
    LET tokens == split_ascii_whitespace(line)
    IN  IF ~r.ok THEN r
        ELSE IF Len(tokens) # 8 THEN r
        ELSE IF Uuid_from_str(tokens[7]) = None THEN Err("uuid")
        ELSE Ok(Append(r.value,
                       Subvolume(IF legacy THEN format_slash(tokens[8])
                                           ELSE leading_slash(tokens[8]),
                                 Uuid_from_str(tokens[7])[1],
                                 Uuid_from_str(tokens[5]), Uuid_from_str(tokens[6]))))

RECURSIVE parse_data_lines(_, _, _)
parse_data_lines(r, lines, legacy) ==
    IF lines = <<>> THEN r
    ELSE parse_data_lines(parse_data_line(r, Head(lines), legacy), Tail(lines), legacy)

\* mutant: the line after the header is parsed like the others
data_lines_from_second(lines) == Tail(lines)

\* `lines.next()` took the header, `lines.skip(1)` drops the line after it
data_lines(lines) == IF Len(lines) <= 2 THEN <<>> ELSE SubSeq(lines, 3, Len(lines))

\* get_subvolumes.rs:36-91  the parsing of `command_output`
get_subvolumes(command_output) ==
    LET lines == split(command_output, Newline)
    IN  IF ~header_matches(lines[1]) THEN Err("unexpected header line")
        ELSE parse_data_lines(Ok(<<>>), data_lines(lines), FALSE)

\* btrfs/mod.rs:248-293  the path is format!("/{}", tokens[7])
extract_subvolumes(input) ==
    LET lines == split(input, Newline)
    IN  IF ~header_matches(lines[1]) THEN Err("unexpected header line")
        ELSE parse_data_lines(Ok(<<>>), data_lines(lines), TRUE)

\* ------------------------------------------------- listings
\* A listing is the sequence of its lines, a line the sequence of its columns;
\* the text puts `sep` between the columns and a line feed between the lines.
MaxRows == 2

RECURSIVE join_with(_, _)
join_with(pieces, sep) ==
    IF pieces = <<>> THEN <<>>
    ELSE IF Len(pieces) = 1 THEN pieces[1]
    ELSE pieces[1] \o sep \o join_with(Tail(pieces), sep)

listing_text(listing) ==
    join_with([i \in 1..Len(listing.lines) |-> join_with(listing.lines[i], listing.sep)],
              <<Newline>>)

\* the header without the word "level"
HeaderWithoutLevel == [i \in 1..8 |-> ExpectedHeader[IF i < 5 THEN i ELSE i + 1]]

\* the line of dashes under the header: 8 columns
DashesLine == [i \in 1..8 |-> TextDashes]

Row(parent_uuid, received_uuid, uuid, path) ==
    <<TextNumber, TextNumber, TextNumber, TextNumber, parent_uuid, received_uuid, uuid, path>>

Rows ==
    {Row(p, r, u, path) : p \in {TextNoUuid, TextUuidA, TextUrnSimple}, r \in {TextNoUuid, TextUuidB},
                          u \in {TextUuidC, TextUuidD, TextBadUuid, TextUuidBraced,
                                 TextUuidUrn, TextUrnSimple},
                          path \in {TextRelativePath, TextAbsolutePath}}

\* a blank line, a line without path, a line whose path has a blank
OtherLines ==
    {<<>>,
     <<TextNumber, TextNumber, TextNumber, TextNumber, TextNoUuid, TextNoUuid, TextUuidC>>,
     Row(TextNoUuid, TextNoUuid, TextUuidC, TextRelativePath) \o <<TextRelativePath>>}

Listings ==
    [lines : {<<h>> : h \in {<<>>, ExpectedHeader, HeaderWithoutLevel}}
                \cup {<<h, s>> \o rows :
                        h \in {ExpectedHeader, HeaderWithoutLevel},
                        s \in {DashesLine,
                               Row(TextNoUuid, TextNoUuid, TextUuidC, TextRelativePath)},
                        rows \in SeqsUpTo(Rows \cup OtherLines, MaxRows)},
     sep : {<<Space>>, <<Tab, Space>>}]

ListInit ==
    /\ list_parser \in {"commands", "btrfs"}
    /\ list_input \in Listings
    /\ list_result = Err("none")
    /\ list_pc = "call"
    /\ PathIdle
    /\ NameIdle
    /\ DelIdle
    /\ PruneIdle
    /\ ParentIdle
    /\ CycleIdle

Commander_get_subvolumes ==
    /\ list_pc = "call"
    /\ list_parser = "commands"
    /\ list_result' = get_subvolumes(listing_text(list_input))
    /\ list_pc' = "done"
    /\ UNCHANGED <<list_parser, list_input, pathVars, nameVars, delVars>>
    /\ UNCHANGED <<pruneVars, parentVars, cycleVars>>

Btrfs_get_subvolumes ==
    /\ list_pc = "call"
    /\ list_parser = "btrfs"
    /\ list_result' = extract_subvolumes(listing_text(list_input))
    /\ list_pc' = "done"
    /\ UNCHANGED <<list_parser, list_input, pathVars, nameVars, delVars>>
    /\ UNCHANGED <<pruneVars, parentVars, cycleVars>>

ListNext == Commander_get_subvolumes \/ Btrfs_get_subvolumes

SpecList == ListInit /\ [][ListNext]_vars

\* ------------------------------------------------- claims: get_subvolumes
\* the value a uuid column stands for
ColumnValue(text) ==
    CASE text = TextUuidA -> Some(UuidValueA)
      [] text = TextUuidB -> Some(UuidValueB)
      [] text = TextUuidC -> Some(UuidValueC)
      [] text = TextUuidD -> Some(UuidValueD)
      [] text = TextUuidBraced -> Some(UuidValueC)
      [] text = TextUuidUrn -> Some(UuidValueA)
      [] OTHER -> None

\* the lines of the listing from the third on that have 8 columns
DataRows ==
    SelectSeq(IF Len(list_input.lines) <= 2 THEN <<>>
              ELSE SubSeq(list_input.lines, 3, Len(list_input.lines)),
              LAMBDA l : Len(l) = 8)

ExpectedSubvolume(row) ==
    Subvolume(IF row[8][1] = Slash THEN row[8] ELSE <<Slash>> \o row[8],
              ColumnValue(row[7])[1], ColumnValue(row[5]), ColumnValue(row[6]))

HeaderIsExpected == list_input.lines[1] = ExpectedHeader

AllUuidsValid == \A i \in 1..Len(DataRows) : ColumnValue(DataRows[i][7]) # None

\* C16: under the expected header and with valid uuid columns
\* Commander::get_subvolumes returns Ok with exactly one Subvolume for each
\* line from the third on that has 8 columns, in the order of the listing;
\* lines with another number of columns are skipped, the path gets a "/"
\* in front only if it has none, a parent_uuid or received_uuid column that is
\* no uuid gives None.
C16_OneSubvolumePerDataLine ==
    (list_pc = "done" /\ list_parser = "commands" /\ HeaderIsExpected /\ AllUuidsValid) =>
        /\ list_result.ok
        /\ list_result.value = [i \in 1..Len(DataRows) |-> ExpectedSubvolume(DataRows[i])]

\* a result of two subvolumes from a listing whose second line is a data line
\* (not returned), with an absolute and a relative path, a "-" and a uuid in
\* the parent column
C16_Witness ==
    /\ list_pc = "done"
    /\ list_parser = "commands"
    /\ list_result.ok
    /\ Len(list_result.value) = 2
    /\ Len(list_input.lines[2]) = 8
    /\ list_input.lines[2] # DashesLine
    /\ list_input.lines[3][8] = TextAbsolutePath
    /\ list_input.lines[4][8] = TextRelativePath
    /\ list_result.value[1].parent_uuid = None
    /\ list_result.value[2].parent_uuid # None

\* a line of 7 columns and a blank line skipped without error
C16_WitnessSkipped ==
    /\ list_pc = "done"
    /\ list_parser = "commands"
    /\ list_result.ok
    /\ Len(list_input.lines) = 4
    /\ Len(list_input.lines[3]) = 7
    /\ list_input.lines[4] = <<>>
    /\ list_result.value = <<>>

\* C17: when the words of the first line are not the 9 expected ones -- also
\* for an empty output -- the call fails with the parsing error, whatever
\* lines follow.
C17_UnexpectedHeaderFails ==
    (list_pc = "done" /\ ~HeaderIsExpected) =>
        /\ ~list_result.ok
        /\ list_result.error = "unexpected header line"

\* the error for a header without "level" followed by two well-formed lines
C17_Witness ==
    /\ list_pc = "done"
    /\ list_input.lines[1] = HeaderWithoutLevel
    /\ Len(DataRows) = 2
    /\ AllUuidsValid
    /\ ~list_result.ok

\* the error for the empty output
C17_WitnessEmptyOutput ==
    /\ list_pc = "done"
    /\ listing_text(list_input) = <<>>
    /\ ~list_result.ok

\* C18: when a line of 8 columns has a uuid column that is no uuid the call
\* returns an error and so none of the subvolumes of the other lines.
C18_BadUuidFailsTheCall ==
    (list_pc = "done" /\ ~AllUuidsValid) => ~list_result.ok

\* the uuid error when a well-formed line precedes the bad one, and when one
\* follows it
C18_Witness ==
    /\ list_pc = "done"
    /\ HeaderIsExpected
    /\ Len(DataRows) = 2
    /\ ColumnValue(DataRows[1][7]) # None
    /\ ColumnValue(DataRows[2][7]) = None
    /\ list_result = Err("uuid")

C18_WitnessBadFirst ==
    /\ list_pc = "done"
    /\ HeaderIsExpected
    /\ Len(DataRows) = 2
    /\ ColumnValue(DataRows[1][7]) = None
    /\ ColumnValue(DataRows[2][7]) # None
    /\ list_result = Err("uuid")

\* ===================================================== snapshot names
\* One call of get_timestamp_suffix_from_snapshot_path, on a path that
\* snapshot_subvolume built from a timestamp and a suffix, or on any path.
MaxSecs == 1

MaxNanos == 1

MaxSuffixLen == 2

MaxNameLen == 2

\* suffixes of the letter h, '_' and '/'
NameSuffixes == SeqsUpTo({104, Underscore, Slash}, MaxSuffixLen)

\* instants of three days (2020-01-01, the leap day 2020-02-29, 1999-12-31),
\* at the start and at the end of the day, with and without a sub-second part
NameTimestamps ==
    {DateTime(d, sec, n) :
        d \in {days_from_civil(2020, 1, 1), days_from_civil(2020, 2, 29),
               days_from_civil(1999, 12, 31)},
        sec \in (0..MaxSecs) \cup {SecsPerDay - 1},
        n \in 0..MaxNanos}

\* "2020-01-01", "00:00:01"
DateText == <<50, 48, 50, 48, 45, 48, 49, 45, 48, 49>>

TimeText == <<48, 48, 58, 48, 48, 58, 48, 49>>

\* "00:00:00", "00:00:01", "00:00:02"
TimeTexts == {<<48, 48, 58, 48, 48, 58, 48, 48 + d>> : d \in 0..2}

\* "Z", "z", "+00:00", "-00:00", "+01:00"
ZoneTexts ==
    {<<90>>, <<122>>, <<43, 48, 48, 58, 48, 48>>, <<45, 48, 48, 58, 48, 48>>,
     <<43, 48, 49, 58, 48, 48>>}

\* texts RFC 3339 admits for a date-time: the date, "T", "t" or a space, the
\* time, an optional fraction of the second (".5"), and "Z", "z" or a numeric
\* offset; and the leap second "2020-01-01T00:00:60Z"
TimestampTexts ==
    {DateText \o <<sep>> \o time \o fraction \o zone :
        sep \in {84, 116, 32}, time \in TimeTexts, fraction \in {<<>>, <<46, 53>>},
        zone \in ZoneTexts}
        \cup {DateText \o <<84, 48, 48, 58, 48, 48, 58, 54, 48, 90>>}

\* texts that are no date-time: no offset, no time, the month 13, the day
\* 2020-02-30, the hour 24, a fraction without digit, a character after the
\* offset, an offset without colon, "1", "h" and the empty text
OtherTexts ==
    {DateText \o <<84>> \o TimeText,
     DateText,
     <<50, 48, 50, 48, 45, 49, 51, 45, 48, 49, 84>> \o TimeText \o <<90>>,
     <<50, 48, 50, 48, 45, 48, 50, 45, 51, 48, 84>> \o TimeText \o <<90>>,
     DateText \o <<84, 50, 52, 58, 48, 48, 58, 48, 48, 90>>,
     DateText \o <<84>> \o TimeText \o <<46, 90>>,
     DateText \o <<84>> \o TimeText \o <<90, 120>>,
     DateText \o <<84>> \o TimeText \o <<43, 48, 49, 48, 48>>,
     <<49>>, <<104>>, <<>>}

\* last path components: one of the texts, alone or followed by '_' and up to
\* MaxNameLen characters of the letter h and '_'
NameSegments ==
    {first \o rest :
        first \in TimestampTexts \cup OtherTexts,
        rest \in {<<>>} \cup {<<Underscore>> \o r : r \in SeqsUpTo({104, Underscore}, MaxNameLen)}}

\* paths with such a last component, written with and without a separator or
\* a "." piece at the end; the empty path and "/"
NamePaths ==
    {join(snapshot_path, seg) \o tail :
        seg \in NameSegments, tail \in {<<>>, <<Slash>>, <<Slash, Dot>>}}
        \cup {<<>>, <<Slash>>}

NameInit ==
    /\ \/ /\ name_origin \in {Some([timestamp |-> t, suffix |-> s]) :
                                 t \in NameTimestamps, s \in NameSuffixes}
          /\ name_path = snapshot_path_of(snapshot_path, name_origin[1].timestamp,
                                          name_origin[1].suffix)
       \/ /\ name_origin = None
          /\ name_path \in NamePaths
    /\ name_result = None
    /\ name_pc = "call"
    /\ PathIdle
    /\ ListIdle
    /\ DelIdle
    /\ PruneIdle
    /\ ParentIdle
    /\ CycleIdle

NameDecode ==
    /\ name_pc = "call"
    /\ name_result' = get_timestamp_suffix_from_snapshot_path(name_path)
    /\ name_pc' = "done"
    /\ UNCHANGED <<name_origin, name_path>>
    /\ UNCHANGED <<pathVars, listVars, delVars, pruneVars, parentVars, cycleVars>>

NameNext == NameDecode

SpecName == NameInit /\ [][NameNext]_vars

\* ------------------------------------------------- claims: snapshot names
\* C19 as stated: decoding the path built from (t, s) returns (t, s), for all
\* timestamps and all suffixes
C19_Claimed ==
    (name_pc = "done" /\ name_origin # None) => name_result = name_origin

\* the instant cut to whole seconds
WholeSeconds(t) == DateTime(t.days, t.secs, 0)

\* C19 amended: decoding the path built from (t, s) returns (t, s) for every
\* timestamp of whole seconds and every suffix without '/', suffixes with
\* underscores included; for any timestamp and such a suffix it returns t cut
\* to whole seconds and s.
C19_RoundTripOfWholeSeconds ==
    (name_pc = "done" /\ name_origin # None /\ Slash \notin Range(name_origin[1].suffix)) =>
        /\ name_result = Some([timestamp |-> WholeSeconds(name_origin[1].timestamp),
                               suffix |-> name_origin[1].suffix])
        /\ name_origin[1].timestamp.frac = 0 => name_result = name_origin

\* the pair returned for the last second of the leap day 2020-02-29 and a
\* suffix of two underscores
C19_Witness ==
    /\ name_pc = "done"
    /\ name_origin # None
    /\ name_origin[1].timestamp = DateTime(days_from_civil(2020, 2, 29), SecsPerDay - 1, 0)
    /\ name_origin[1].suffix = <<Underscore, Underscore>>
    /\ name_result = name_origin

\* the final path segment: the last name between the separators of the path
HasSegment == NamesOf(name_path, <<>>, <<>>) # <<>>

Segment == Last(NamesOf(name_path, <<>>, <<>>))

\* the first piece of the final segment, as split("_") cuts it
FirstPiece ==
    IF Underscore \in Range(Segment)
    THEN SubSeq(Segment, 1, Min({i \in 1..Len(Segment) : Segment[i] = Underscore}) - 1)
    ELSE Segment

IsTimestampText(s) == s \in TimestampTexts

\* C20 as stated: decoding succeeds only if the last component contains an
\* underscore and the part before the first underscore is a timestamp
C20_Claimed ==
    (name_pc = "done" /\ name_result # None) =>
        /\ HasSegment
        /\ Underscore \in Range(Segment)
        /\ IsTimestampText(FirstPiece)

\* what the decoder does: it succeeds exactly when the text before the first
\* underscore, or the whole component when there is none, is a timestamp
DecodesIffFirstPieceIsTimestamp ==
    name_pc = "done" => (name_result # None <=> (HasSegment /\ IsTimestampText(FirstPiece)))

\* a component without underscore that is a timestamp is decoded, with the
\* empty suffix
DecodedWithoutUnderscore ==
    /\ name_pc = "done"
    /\ HasSegment
    /\ Underscore \notin Range(Segment)
    /\ name_result # None
    /\ name_result[1].suffix = <<>>

\* ===================================================== delete_subvolume
\* One call of Commander::delete_subvolume (src/commands/delete_subvolume.rs)
\* or of the older Btrfs::delete_subvolume (src/btrfs/mod.rs).  The file
\* system of the call has the directories "/", "/home", "/home/u", "/root",
\* "/tmp" and the symbolic link "/link"; the working directory and the target
\* of the link vary.
\* the arguments: '/home', '/home/', '/home/.', '/', '/tmp', '/tmp/..',
\* '/tmp/../home', 'home', 'root', '/gone', '/link', and, where going back by
\* ".." depends on the file system, '/gone/..', 'tmp/..', '/link/..',
\* '/home/u/..'
DeleteArguments ==
    {<<47, 104, 111, 109, 101>>,
     <<47, 104, 111, 109, 101, 47>>,
     <<47, 104, 111, 109, 101, 47, 46>>,
     <<47>>,
     <<47, 116, 109, 112>>,
     <<47, 116, 109, 112, 47, 46, 46>>,
     <<47, 116, 109, 112, 47, 46, 46, 47, 104, 111, 109, 101>>,
     <<104, 111, 109, 101>>,
     <<114, 111, 111, 116>>,
     <<47, 103, 111, 110, 101>>,
     <<47, 108, 105, 110, 107>>,
     <<47, 103, 111, 110, 101, 47, 46, 46>>,
     <<116, 109, 112, 47, 46, 46>>,
     <<47, 108, 105, 110, 107, 47, 46, 46>>,
     <<47, 104, 111, 109, 101, 47, 117, 47, 46, 46>>}

\* the names of a canonical path, and the canonical path of a sequence of names
names_of(path) == SelectSeq(split(path, Slash), LAMBDA name : name # <<>>)

path_of(names) == <<Slash>> \o join_with(names, <<Slash>>)

\* realpath: the components are resolved from left to right against the file
\* system.  `resolved` holds the names of the directory reached so far; an
\* empty piece and "." stay there, ".." goes to its parent ("/" is its own
\* parent), a name must exist in it: the symbolic link leads to its target,
\* a directory is entered, any other name is the io error.  Every entry of the
\* file system is a directory or the link to one.
RECURSIVE realpath(_, _, _)
realpath(resolved, comps, link_target) ==
    IF comps = <<>> THEN Some(path_of(resolved))
    ELSE IF Head(comps) = <<>> \/ Head(comps) = <<Dot>>
         THEN realpath(resolved, Tail(comps), link_target)
    ELSE IF Head(comps) = <<Dot, Dot>>
         THEN realpath(IF resolved = <<>> THEN <<>> ELSE Front(resolved), Tail(comps),
                       link_target)
    ELSE IF path_of(Append(resolved, Head(comps))) = LinkPath
         THEN realpath(names_of(link_target), Tail(comps), link_target)
    ELSE IF path_of(Append(resolved, Head(comps))) \in ExistingDirs
         THEN realpath(Append(resolved, Head(comps)), Tail(comps), link_target)
    ELSE None

\* Path::canonicalize: the absolute path without ".", ".." and symbolic links,
\* a relative path starting in the working directory; None stands for the io
\* error of the empty path and of a path with a name that does not exist
canonicalize(path, cwd, link_target) ==
    IF path = <<>> THEN None
    ELSE realpath(IF path[1] = Slash THEN <<>> ELSE names_of(cwd), split(path, Slash),
                  link_target)

\* delete_subvolume.rs:19-32  canonicalized in a Local context, as given in a
\* Remote one
path_to_delete(subvolume, context, cwd, link_target) ==
    IF context = "local" THEN canonicalize(subvolume, cwd, link_target) ELSE Some(subvolume)

\* delete_subvolume.rs:18-46
delete_subvolume(subvolume, context, cwd, link_target, exec_ok) ==
    checked_delete(path_to_delete(subvolume, context, cwd, link_target), context, exec_ok)

\* btrfs/mod.rs:157-174  canonicalized in every context
btrfs_delete_subvolume(subvolume, context, cwd, link_target, exec_ok) ==
    checked_delete(canonicalize(subvolume, cwd, link_target), context, exec_ok)

DeleteInit ==
    /\ del_impl \in {"commands", "btrfs"}
    /\ del_context \in {"local", "remote"}
    /\ del_subvolume \in DeleteArguments
    /\ del_cwd \in {DirRoot, DirTmp}
    /\ del_link_target \in {DirHome, DirTmp, DirHomeUser}
    /\ del_result = "none"
    /\ del_exec = <<>>
    /\ del_pc = "call"
    /\ PathIdle
    /\ ListIdle
    /\ NameIdle
    /\ PruneIdle
    /\ ParentIdle
    /\ CycleIdle

Commander_delete_subvolume ==
    /\ del_pc = "call"
    /\ del_impl = "commands"
    /\ \E exec_ok \in BOOLEAN :
           LET r == delete_subvolume(del_subvolume, del_context, del_cwd, del_link_target,
                                     exec_ok)
           IN  del_result' = r.result /\ del_exec' = r.exec
    /\ del_pc' = "done"
    /\ UNCHANGED <<del_impl, del_context, del_subvolume, del_cwd, del_link_target>>
    /\ UNCHANGED <<pathVars, listVars, nameVars, pruneVars, parentVars, cycleVars>>

Btrfs_delete_subvolume ==
    /\ del_pc = "call"
    /\ del_impl = "btrfs"
    /\ \E exec_ok \in BOOLEAN :
           LET r == btrfs_delete_subvolume(del_subvolume, del_context, del_cwd,
                                           del_link_target, exec_ok)
           IN  del_result' = r.result /\ del_exec' = r.exec
    /\ del_pc' = "done"
    /\ UNCHANGED <<del_impl, del_context, del_subvolume, del_cwd, del_link_target>>
    /\ UNCHANGED <<pathVars, listVars, nameVars, pruneVars, parentVars, cycleVars>>

DeleteNext == Commander_delete_subvolume \/ Btrfs_delete_subvolume

SpecDelete == DeleteInit /\ [][DeleteNext]_vars

\* ------------------------------------------------- claims: delete_subvolume
\* the canonical form of the argument in the file system of the call
CanonicalArgument == canonicalize(del_subvolume, del_cwd, del_link_target)

CanonicalIsRestricted ==
    CanonicalArgument # None /\ CanonicalArgument[1] \in RestrictedNames

\* C21: in a Local context a call whose canonicalized path is one of home,
\* /home, root, / returns the error and the executor is not called; whenever
\* the executor is called the path has passed the check.
C21_LocalRestrictedNeverDeleted ==
    (del_pc = "done" /\ del_context = "local") =>
        /\ CanonicalIsRestricted => (del_result = "restricted" /\ del_exec = <<>>)
        /\ \A i \in 1..Len(del_exec) : del_exec[i].path \notin RestrictedNames

\* the relative path "home" in the working directory "/" and the link to
\* "/home" are refused in a Local context
C21_Witness ==
    /\ del_pc = "done"
    /\ del_context = "local"
    /\ del_subvolume \in {NameHome, LinkPath}
    /\ CanonicalArgument = Some(DirHome)
    /\ del_result = "restricted"
    /\ del_exec = <<>>

\* "/link/.." with the link leading to "/home/u" is "/home" and is refused,
\* though the text without ".." and its predecessor would be "/"
C21_WitnessThroughLink ==
    /\ del_pc = "done"
    /\ del_context = "local"
    /\ del_subvolume = LinkPath \o <<Slash, Dot, Dot>>
    /\ del_link_target = DirHomeUser
    /\ CanonicalArgument = Some(DirHome)
    /\ del_result = "restricted"
    /\ del_exec = <<>>

\* "/gone/.." and, in the working directory "/tmp", "tmp/..": a name before
\* ".." does not exist, the call returns the io error and hands no command to
\* the executor
MissingIntermediateIsIoError ==
    /\ del_pc = "done"
    /\ del_context = "local"
    /\ \/ del_subvolume = <<47, 103, 111, 110, 101, 47, 46, 46>>
       \/ del_subvolume = <<116, 109, 112, 47, 46, 46>> /\ del_cwd = DirTmp
    /\ CanonicalArgument = None
    /\ del_result = "io error"
    /\ del_exec = <<>>

\* C22 as stated: in every context the check is applied to the canonicalized
\* path and the delete command receives the canonicalized path
C22_Claimed ==
    (del_pc = "done" /\ del_impl = "commands") =>
        /\ CanonicalIsRestricted => (del_result = "restricted" /\ del_exec = <<>>)
        /\ \A i \in 1..Len(del_exec) : Some(del_exec[i].path) = CanonicalArgument

\* what Commander::delete_subvolume does in a Remote context: the argument is
\* compared and handed on as it is
RemoteUsesTheArgument ==
    (del_pc = "done" /\ del_impl = "commands" /\ del_context = "remote") =>
        /\ del_subvolume \in RestrictedNames <=> del_result = "restricted"
        /\ \A i \in 1..Len(del_exec) : del_exec[i].path = del_subvolume

\* a delete command issued in a Remote context for a path whose canonical form
\* is "/home" or "/"
RemoteDeletesRestricted ==
    /\ del_pc = "done"
    /\ del_impl = "commands"
    /\ del_context = "remote"
    /\ CanonicalIsRestricted
    /\ del_exec # <<>>

\* ===================================================== police_snapshots alone
\* The call of ActionsSystem::police_snapshots on the local host after the
\* snapshot of the cycle was created and sent.  The inventory holds the source,
\* the new snapshot and subvolumes named "<t0>_h", "<t1>_h" and
\* "2020-01-01t00:00:01z_h" (timestamp and configured suffix), "<t1>_x"
\* (another suffix), "<t1>_xh" and "<t1>_x_h" (suffixes that end in the
\* configured one), "x_h" and "2020-13-01T00:00:01Z_h" (no timestamp); a
\* policy entry beyond MaxDuration cannot be converted.
MaxPoliced == 3

MaxPolicePolicyLen == 1

NameEndsInSuffix == to_rfc3339_opts(at_second(1)) \o <<Underscore, 120, 104>>

NameWithoutTimestamp == <<120, Underscore, 104>>

PoliceNames ==
    {to_rfc3339_opts(at_second(0)) \o <<Underscore, 104>>,
     to_rfc3339_opts(at_second(1)) \o <<Underscore, 104>>,
     DateText \o <<116>> \o TimeText \o <<122, Underscore, 104>>,
     to_rfc3339_opts(at_second(1)) \o <<Underscore, 120>>,
     NameEndsInSuffix,
     to_rfc3339_opts(at_second(1)) \o <<Underscore, 120, Underscore, 104>>,
     NameWithoutTimestamp,
     <<50, 48, 50, 48, 45, 49, 51, 45, 48, 49, 84>> \o TimeText \o <<90, Underscore, 104>>}

\* the old snapshots: children of the source, their uuids distinct from each
\* other, from the uuid of the source and from the uuid of the new snapshot
PoliceLocal ==
    {[i \in 1..Len(ns) |-> Subvolume(join(snapshot_path, ns[i]), NewUuid + i,
                                     Some(source_subvolume.uuid), None)] :
        ns \in InjSeqs(PoliceNames, MaxPoliced)}

PolicePolicies == SeqsUpTo(1..(MaxDuration + 1), MaxPolicePolicyLen)

PoliceInit ==
    /\ program = "backup_btrfs"
    /\ cycle_pc = "prune_local"
    /\ fs_local \in {<<source_subvolume>> \o old \o <<new_snapshot>> : old \in PoliceLocal}
    /\ fs_remote = <<>>
    /\ local_mount_information \in MountTables(snapshot_device)
    /\ remote_mount_information = <<>>
    /\ policy_local \in PolicePolicies
    /\ policy_remote = <<>>
    /\ snapshots_local = <<>>
    /\ latest_local_snapshot = Some(new_snapshot_info)
    /\ filter_time = at_second(0)
    /\ trace = <<>>
    /\ PruneIdle
    /\ ParentIdle
    /\ PureIdle

PoliceNext == BB_PoliceLocal

SpecPolice == PoliceInit /\ [][PoliceNext]_vars

\* ------------------------------------------------- claims: police_snapshots
\* the subvolumes of one file system have pairwise distinct uuids
UuidsDistinct(fs) == \A i, j \in 1..Len(fs) : i # j => fs[i].uuid # fs[j].uuid

InventoryUuidsDistinct == UuidsDistinct(fs_local) /\ UuidsDistinct(fs_remote)

PoliceReturned == cycle_pc # "prune_local"

DeleteCommands == {i \in 1..Len(trace) : trace[i].op = "delete"}

PolicyHasUnconvertible == \E i \in 1..Len(policy_local) : policy_local[i] > MaxDuration

\* C23 as stated: with a policy duration that cannot be converted the pass
\* returns the error and deletes nothing
C23_Claimed ==
    (PoliceReturned /\ PolicyHasUnconvertible) =>
        /\ DeleteCommands = {}
        /\ ~trace[Len(trace)].ok

\* a pass with an unconvertible duration that returns Ok after a delete
DeletedDespiteUnconvertible ==
    /\ PoliceReturned
    /\ PolicyHasUnconvertible
    /\ trace[Len(trace)].ok
    /\ \E i \in DeleteCommands : trace[i].ok

\* the final path segment is <timestamp>_<configured suffix>
ExactNames == {text \o <<Underscore>> \o cycle_suffix : text \in TimestampTexts}

IsExactName(names) == names # <<>> /\ Last(names) \in ExactNames

IsExactlyNamed(sv) == IsExactName(NamesOf(sv.btrfs_path, <<>>, <<>>))

\* C24: every delete_subvolume call of police_snapshots names a subvolume
\* whose final path segment is exactly <timestamp>_<configured suffix>; the
\* other subvolumes stay in the file system, and the pass fails only when the
\* listing or such a call fails or a path cannot be converted.
C24_OnlyExactlyNamedDeleted ==
    [][BB_PoliceLocal =>
        /\ \A i \in (Len(trace) + 1)..Len(trace') :
               trace'[i].op \in {"delete", "canonicalize"}
                   => IsExactlyNamed(trace'[i].sv[1])
        /\ \A sv \in Range(fs_local) : ~IsExactlyNamed(sv) => sv \in Range(fs_local')
        /\ ~trace'[Len(trace')].ok =>
               \/ \E i \in (Len(trace) + 1)..(Len(trace') - 1) : ~trace'[i].ok
               \/ local_mount_information = <<>>]_vars

\* a pass that returned Ok and deleted an exactly named subvolume while
\* "<t1>_xh" and "x_h" stayed
C24_Witness ==
    /\ PoliceReturned
    /\ trace[Len(trace)].ok
    /\ \E i \in DeleteCommands : trace[i].ok /\ IsExactlyNamed(trace[i].sv[1])
    /\ \E sv \in Range(fs_local) : last_component(sv.btrfs_path) = Some(NameEndsInSuffix)
    /\ \E sv \in Range(fs_local) : last_component(sv.btrfs_path) = Some(NameWithoutTimestamp)
    /\ Len(fs_local) = 4

====
